---------------------------- MODULE Spec2Model ----------------------------
(***************************************************************************)
(* libe15 LCD drivers (ST7789 / ST7735): the asynchronous GRAM streaming   *)
(* engine, the bulk-clear orchestrator built on it, the command sequencer  *)
(* and wait_async_complete, modelled from src/hardware/lcd/st7789.c (and   *)
(* its near-identical copy st7735.c), src/hardware/devop.h and             *)
(* src/hardware/timer.c.                                                   *)
(* At the end: sys_delay_ms (src/hardware/timer.c), the timeout of the     *)
(* CS123x ADC (src/hardware/adc/chipsea/cs123x.c) and the write offset of  *)
(* the SSD1306 OLED (src/hardware/oled/ssd1306.c).                         *)
(*                                                                         *)
(* Every C function is an operator from a "world" record to a world        *)
(* record; the field ret of the result is the function's return value.     *)
(* The world holds the device structs, the static clear configuration, the *)
(* heap, the bus lines and the bookkeeping of the HAL (the calls made to   *)
(* the caller-supplied bus primitives).  The actions at the end call these *)
(* operators and store the world in the variables.                         *)
(***************************************************************************)
EXTENDS Integers, Sequences, FiniteSets, TLC

(***************************************************************************)
(* Program constants.                                                      *)
(***************************************************************************)
ALL_OK == 0
E_INVALID_ARGUMENT == -90001
E_INVALID_OPERATION == -90003
E_HARDWARE_ERROR == -60001
E_HARDWARE_TIMEOUT == -60500
E_MEMORY_ALLOC_FAILED == -70002
E_MEMORY_OUT_OF_BOUND == -70100

ST7789_BUS_MODE_UNKNOW == 0
ST7789_BUS_MODE_SPI == 1
ST7789_BUS_MODE_8080 == 2
\* bus_mode is a 2-bit field: 3 is the one value that names no bus and
\* that st7789_init copies into the device (its first command then fails).
BUS_MODE_INVALID == 3

ST7789_ASYNC_STATE_IDLE == 0
ST7789_ASYNC_STATE_BUFFER_LOADED == 1
ST7789_ASYNC_STATE_BUFFER_RELOADED == 2
ST7789_ASYNC_STATE_TRANSFERING == 3

CASET == 42
RASET == 43
RAMWR == 44
RAMRD == 46
COLMOD == 58

\* const int cache_line_count = 5;
cache_line_count == 5

NULL == 0

\* the native ranges checked by display_set_window
ST7789_MAX_X == 240
ST7789_MAX_Y == 320
ST7735_MAX_XY == 162

FAILED(res) == res # ALL_OK

\* U16ECV(value) = __REV16(value): the two bytes of a 16-bit value swapped
U16ECV(value) == ((value % 65536) % 256) * 256 + ((value % 65536) \div 256)

\* conversion of a C int to uint16_t
U16(value) == value % 65536

(***************************************************************************)
(* Bounds of the model.                                                    *)
(***************************************************************************)
\* API calls made by the application in one behaviour (completions of
\* dispatched transfers are not counted)
MaxCalls == 3
\* chunks a self-re-arming application handler adds to a session
MaxUserChunks == 1
\* calls of display_clear_gram_async in one behaviour, per device
MaxClears == 1
\* API calls of one behaviour in which a bus primitive fails
MaxFaults == 1

Devs == {1}

\* the panels: controller, width and height given at init.  The ST7789
\* accepts windows up to 240 x 320, the ST7735 up to 162 x 162.
Panels ==
    { [ctrl |-> "st7789", x |-> 1, y |-> 0],
      [ctrl |-> "st7789", x |-> 2, y |-> 4],
      [ctrl |-> "st7789", x |-> 3, y |-> 13],
      [ctrl |-> "st7789", x |-> 240, y |-> 10],
      [ctrl |-> "st7789", x |-> 241, y |-> 5],
      [ctrl |-> "st7789", x |-> 2, y |-> 321],
      [ctrl |-> "st7735", x |-> 162, y |-> 6],
      [ctrl |-> "st7735", x |-> 163, y |-> 5],
      [ctrl |-> "st7735", x |-> 1, y |-> 163] }

BusModes == {ST7789_BUS_MODE_SPI, ST7789_BUS_MODE_8080, BUS_MODE_INVALID}

\* the panel of the devices on which the application drives the engine
BasePanel == [ctrl |-> "st7789", x |-> 2, y |-> 4]

\* device configurations: panel, bus mode, whether the optional bus lock
\* (bus_aquire / bus_release) is supplied
AllConfigs == [panel : Panels, mode : BusModes, lock : BOOLEAN]

\* the devices of the engine model: one panel on the serial bus with and
\* without bus lock, on the parallel bus and with the bus mode that names
\* no bus
Configs ==
    {c \in AllConfigs :
        /\ c.panel = BasePanel
        /\ c.lock \/ c.mode = ST7789_BUS_MODE_SPI}

\* the devices of the clear model: every panel on a serial bus with bus
\* lock, two panels on a parallel bus without, one with the bus mode that
\* names no bus
ClearConfigs ==
    {c \in AllConfigs :
        \/ c.mode = ST7789_BUS_MODE_SPI /\ c.lock
        \/ c.mode = ST7789_BUS_MODE_8080 /\ ~c.lock /\ c.panel.y \in {4, 13}
        \/ c.mode = BUS_MODE_INVALID /\ c.lock /\ c.panel = BasePanel}

\* application buffers (addresses distinct from the heap's)
UserBufs == {101}
\* pixel counts the application stages
UserSizes == {0, 4}
Colors == {4779}

\* completion handlers the application registers: none, one that fails,
\* one that stages a buffer, one that chains the next chunk
UserHandlers == {"NULL", "h_fail", "h_stage", "h_chain"}

(***************************************************************************)
(* Sequencing.  Let(v, Body) is "x = v; Body(x)": v is evaluated once and  *)
(* bound.  OnOk(v, Body) is the CALL_WITH_ERROR_RETURN pattern: the call v *)
(* returns a world; when it failed it is the result, else Body goes on.    *)
(***************************************************************************)
Let(v, Body(_)) == CHOOSE r \in {Body(x) : x \in {v}} : TRUE

OnOk(v, Body(_)) ==
    CHOOSE r \in {IF FAILED(x.ret) THEN x ELSE Body(x) : x \in {v}} : TRUE

\* "return code;"
Return(w, code) == [w EXCEPT !.ret = code]

(***************************************************************************)
(* The HAL: the caller-supplied bus primitives.  A primitive call is       *)
(* logged; the failAt-th primitive call of an API call fails (0: none).    *)
(***************************************************************************)
IsLineEvent(p) == p \in {"gpio_cs_set", "gpio_dc_set", "spi.write",
                         "bus80.command_write", "bus80.data_write"}

IsWriteStart(p) == p \in {"spi.write_async_start",
                          "bus80.data_write_async_start"}

\* bookkeeping of the streaming session: a line event goes to pre before
\* the session's first write-start and to post after it
SessEvent(w, d, p, a) ==
    IF IsLineEvent(p) /\ w.sess[d].open
    THEN IF w.sess[d].nws = 0
         THEN [w EXCEPT !.sess[d].pre = Append(@, <<p, a>>)]
         ELSE [w EXCEPT !.sess[d].post = Append(@, <<p, a>>)]
    ELSE w

\* the controller behind the parallel bus: its frame memory as the bytes
\* written since the last memory write command, and the read position
NoGram == [mode |-> "idle", bytes |-> <<>>, rp |-> 0]

\* the command a command_write carries (sent in either byte order)
IsCommand(a, c) == a[2] = "cmd" /\ a[3] \in {c, U16ECV(c)}

\* bus80.command_write: RAMWR restarts writing, RAMRD restarts reading
GramCommand(g, a) ==
    IF IsCommand(a, RAMWR) THEN [mode |-> "ramwr", bytes |-> <<>>, rp |-> 0]
    ELSE IF IsCommand(a, RAMRD) THEN [g EXCEPT !.mode = "ramrd", !.rp = 0]
    ELSE g

\* bus80.data_write: pixel bytes go to the frame memory
GramWrite(g, a) ==
    IF a[2] = "px" /\ g.mode = "ramwr" THEN [g EXCEPT !.bytes = @ \o a[3]]
    ELSE g

\* bus80.data_read of n bytes: the bytes of the frame memory in the order
\* they were written, zeros after the last
GramRead(g, n) ==
    [i \in 1..n |-> IF g.mode = "ramrd" /\ g.rp + i <= Len(g.bytes)
                    THEN g.bytes[g.rp + i] ELSE 0]

\* the effect of a primitive that succeeded
Effect(w, d, p, a) ==
    IF p = "gpio_cs_set" THEN SessEvent([w EXCEPT !.line[d].cs = a], d, p, a)
    ELSE IF p = "gpio_dc_set" THEN SessEvent([w EXCEPT !.line[d].dc = a], d, p, a)
    ELSE IF p = "bus_aquire" THEN [w EXCEPT !.held = @ + 1]
    ELSE IF p = "bus_release" THEN [w EXCEPT !.held = @ - 1]
    ELSE IF p = "bus80.command_write"
    THEN SessEvent([w EXCEPT !.gram[d] = GramCommand(@, a)], d, p, a)
    ELSE IF p = "bus80.data_write"
    THEN SessEvent([w EXCEPT !.gram[d] = GramWrite(@, a)], d, p, a)
    ELSE IF p = "bus80.data_read"
    THEN [w EXCEPT !.rx = GramRead(w.gram[d], a[1]),
                   !.gram[d].rp = @ + a[1]]
    ELSE IF IsWriteStart(p)
    THEN [w EXCEPT !.inflight[d] = @ + 1,
                   !.disp[d] = Append(@, a[1]),
                   !.sess[d].nws = @ + 1]
    ELSE SessEvent(w, d, p, a)

Prim(w, d, p, a) ==
    Let([w EXCEPT !.ncalls = @ + 1,
                  !.log = Append(@, [p |-> p, a |-> a,
                                     ok |-> w.ncalls + 1 # w.failAt]),
                  !.ret = IF w.ncalls + 1 # w.failAt THEN ALL_OK
                          ELSE E_HARDWARE_ERROR],
        LAMBDA w1 : IF FAILED(w1.ret) THEN w1 ELSE Effect(w1, d, p, a))

\* a run of CALL_WITH_CODE_GOTO(err, lab, ...) to one label: the calls in
\* order up to the first that fails; ret is err at the label
RECURSIVE RunPrims(_, _, _)
RunPrims(w, d, steps) ==
    IF steps = <<>> THEN w
    ELSE OnOk(Prim(w, d, Head(steps)[1], Head(steps)[2]),
              LAMBDA w1 : RunPrims(w1, d, Tail(steps)))

\* CALL_NULLABLE_WITH_ERROR(device->device_op.bus_aquire)
bus_aquire(w, d) ==
    IF w.dev[d].has_lock THEN Prim(w, d, "bus_aquire", <<>>)
    ELSE Return(w, ALL_OK)

\* CALL_NULLABLE_WITH_ERROR(device->device_op.bus_release)
bus_release(w, d) ==
    IF w.dev[d].has_lock THEN Prim(w, d, "bus_release", <<>>)
    ELSE Return(w, ALL_OK)

(***************************************************************************)
(* Command sequencer.                                                      *)
(***************************************************************************)
\* write_command raising data/command before it deselects the chip when
\* the command has no arguments
write_command_body_dc_before_cs(w, d, command, pargs, nargs) ==
    IF w.dev[d].bus_mode = ST7789_BUS_MODE_SPI
    THEN RunPrims(w, d,
           IF nargs # 0
           THEN << <<"gpio_dc_set", 0>>, <<"gpio_cs_set", 0>>,
                   <<"spi.write", <<1, "cmd", command>> >>,
                   <<"gpio_dc_set", 1>>,
                   <<"spi.write", <<nargs, "args", pargs>> >>,
                   <<"gpio_cs_set", 1>> >>
           ELSE << <<"gpio_dc_set", 0>>, <<"gpio_cs_set", 0>>,
                   <<"spi.write", <<1, "cmd", command>> >>,
                   <<"gpio_dc_set", 1>>, <<"gpio_cs_set", 1>> >>)
    ELSE IF w.dev[d].bus_mode = ST7789_BUS_MODE_8080
    THEN RunPrims(w, d,
           << <<"bus80.command_write",
                <<2, "cmd", IF w.dev[d].host_is_big_endian THEN command
                            ELSE U16ECV(command)>> >>,
              <<"bus80.data_write", <<nargs, "args", pargs>> >> >>)
    ELSE Return(w, E_INVALID_ARGUMENT)

\* write_command that takes every bus mode but the serial one for the
\* parallel bus
write_command_body_no_mode_check(w, d, command, pargs, nargs) ==
    IF w.dev[d].bus_mode = ST7789_BUS_MODE_SPI
    THEN RunPrims(w, d,
           IF nargs # 0
           THEN << <<"gpio_dc_set", 0>>, <<"gpio_cs_set", 0>>,
                   <<"spi.write", <<1, "cmd", command>> >>,
                   <<"gpio_dc_set", 1>>,
                   <<"spi.write", <<nargs, "args", pargs>> >>,
                   <<"gpio_cs_set", 1>> >>
           ELSE << <<"gpio_dc_set", 0>>, <<"gpio_cs_set", 0>>,
                   <<"spi.write", <<1, "cmd", command>> >>,
                   <<"gpio_cs_set", 1>>, <<"gpio_dc_set", 1>> >>)
    ELSE RunPrims(w, d,
           << <<"bus80.command_write",
                <<2, "cmd", IF w.dev[d].host_is_big_endian THEN command
                            ELSE U16ECV(command)>> >>,
              <<"bus80.data_write", <<nargs, "args", pargs>> >> >>)

\* the calls of st7789_write_command between bus_aquire and the exit label
write_command_body(w, d, command, pargs, nargs) ==
    IF w.dev[d].bus_mode = ST7789_BUS_MODE_SPI
    THEN RunPrims(w, d,
           IF nargs # 0
           THEN << <<"gpio_dc_set", 0>>, <<"gpio_cs_set", 0>>,
                   <<"spi.write", <<1, "cmd", command>> >>,
                   <<"gpio_dc_set", 1>>,
                   <<"spi.write", <<nargs, "args", pargs>> >>,
                   <<"gpio_cs_set", 1>> >>
           ELSE << <<"gpio_dc_set", 0>>, <<"gpio_cs_set", 0>>,
                   <<"spi.write", <<1, "cmd", command>> >>,
                   <<"gpio_cs_set", 1>>, <<"gpio_dc_set", 1>> >>)
    ELSE IF w.dev[d].bus_mode = ST7789_BUS_MODE_8080
    THEN RunPrims(w, d,
           << <<"bus80.command_write",
                <<2, "cmd", IF w.dev[d].host_is_big_endian THEN command
                            ELSE U16ECV(command)>> >>,
              <<"bus80.data_write", <<nargs, "args", pargs>> >> >>)
    ELSE Return(w, E_INVALID_ARGUMENT)

\* exit: CALL_NULLABLE_WITH_ERROR(bus_release); return err;
ReleaseAndReturn(w, d, err) ==
    OnOk(bus_release(w, d), LAMBDA w1 : Return(w1, err))

\* write_command that returns a failure of its body at once, releasing the
\* bus on success only
write_command_release_on_success(w, d, command, pargs, nargs) ==
    OnOk(bus_aquire(w, d), LAMBDA w0 :
      OnOk(write_command_body(w0, d, command, pargs, nargs), LAMBDA w1 :
        ReleaseAndReturn(w1, d, w1.ret)))

st7789_write_command(w, d, command, pargs, nargs) ==
    OnOk(bus_aquire(w, d), LAMBDA w0 :
      Let(write_command_body(w0, d, command, pargs, nargs), LAMBDA w1 :
        ReleaseAndReturn(w1, d, w1.ret)))

(***************************************************************************)
(* Window/addressing model.                                                *)
(***************************************************************************)
NativeX(ctrl) == IF ctrl = "st7789" THEN ST7789_MAX_X ELSE ST7735_MAX_XY
NativeY(ctrl) == IF ctrl = "st7789" THEN ST7789_MAX_Y ELSE ST7735_MAX_XY

\* the PARAM_CHECKs of display_set_window without those of bottom
WindowOkBottomUnchecked(ctrl, rect) ==
    /\ rect.top >= 0
    /\ rect.left >= 0 /\ rect.right >= 0
    /\ rect.top <= NativeY(ctrl)
    /\ rect.left <= NativeX(ctrl) /\ rect.right <= NativeX(ctrl)

\* the PARAM_CHECKs of display_set_window
WindowOk(ctrl, rect) ==
    /\ rect.top >= 0 /\ rect.bottom >= 0
    /\ rect.left >= 0 /\ rect.right >= 0
    /\ rect.top <= NativeY(ctrl) /\ rect.bottom <= NativeY(ctrl)
    /\ rect.left <= NativeX(ctrl) /\ rect.right <= NativeX(ctrl)

st7789_display_set_window(w, d, rect) ==
    IF ~WindowOk(w.dev[d].ctrl, rect) THEN Return(w, E_INVALID_ARGUMENT)
    ELSE OnOk(st7789_write_command(w, d, CASET,
                <<U16ECV(U16(rect.left)), U16ECV(U16(rect.right - 1))>>, 4),
              LAMBDA w1 :
                st7789_write_command(w1, d, RASET,
                  <<U16ECV(U16(rect.top)), U16ECV(U16(rect.bottom - 1))>>, 4))

(***************************************************************************)
(* Pixel transfer: append_gram / write_pixel_data and read_gram.  A        *)
(* primitive is handed a pointer and a byte count: what goes over the bus  *)
(* is the memory image of the values, which depends on the byte order of   *)
(* the host (host_is_big_endian).                                          *)
(***************************************************************************)
\* the two bytes of a uint16_t in the host's memory, lowest address first
Bytes16(be, v) ==
    IF be THEN <<v \div 256, v % 256>> ELSE <<v % 256, v \div 256>>

\* the uint16_t the host reads from two bytes of its memory
Value16(be, b1, b2) == IF be THEN b1 * 256 + b2 ELSE b2 * 256 + b1

\* the memory image of an array of uint16_t
RECURSIVE MemBytes(_, _)
MemBytes(be, data) ==
    IF data = <<>> THEN <<>>
    ELSE Bytes16(be, Head(data)) \o MemBytes(be, Tail(data))

\* for (i < ndata) { rgb565_t data = U16ECV(pdata[i]); write(2, &data); }
PixelWrites(p, be, pdata) ==
    [i \in 1..Len(pdata) |->
        <<p, <<2, "px", Bytes16(be, U16ECV(pdata[i]))>> >>]

\* the calls of st7789_write_pixel_data between bus_aquire and the exit
\* label, for the serial and the parallel bus
write_pixel_data_body(w, d, pdata) ==
    IF w.dev[d].bus_mode = ST7789_BUS_MODE_SPI
    THEN RunPrims(w, d,
           << <<"gpio_dc_set", 1>>, <<"gpio_cs_set", 0>> >>
           \o PixelWrites("spi.write", w.dev[d].host_is_big_endian, pdata)
           \o << <<"gpio_dc_set", 1>>, <<"gpio_cs_set", 1>> >>)
    ELSE RunPrims(w, d,
           \* the whole buffer at once on a big-endian host, and then (there
           \* is no else) every pixel again
           (IF w.dev[d].host_is_big_endian
            THEN << <<"bus80.data_write",
                      <<2 * Len(pdata), "px", MemBytes(TRUE, pdata)>> >> >>
            ELSE <<>>)
           \o PixelWrites("bus80.data_write", w.dev[d].host_is_big_endian,
                          pdata))

st7789_write_pixel_data(w, d, pdata) ==
    OnOk(bus_aquire(w, d), LAMBDA w0 :
      IF w0.dev[d].bus_mode \in {ST7789_BUS_MODE_SPI, ST7789_BUS_MODE_8080}
      THEN Let(write_pixel_data_body(w0, d, pdata), LAMBDA w1 :
             ReleaseAndReturn(w1, d, w1.ret))
      \* else return E_INVALID_ARGUMENT; (not by way of the exit label)
      ELSE Return(w0, E_INVALID_ARGUMENT))

\* w_data points to the npixel values pixels
st7789_append_gram(w, d, w_data, pixels) ==
    IF w_data = NULL THEN Return(w, E_INVALID_ARGUMENT)
    ELSE OnOk(st7789_write_command(w, d, RAMWR, <<>>, 0), LAMBDA w1 :
           OnOk(st7789_write_pixel_data(w1, d, pixels), LAMBDA w2 :
             Return(w2, ALL_OK)))

\* a store beyond the npixel entries of pbuf is undefined behaviour: it
\* either faults (ub = "fault") or overwrites what lies behind the buffer
Overrun(w) == [w EXCEPT !.crashed = TRUE, !.ret = E_HARDWARE_ERROR]

\* for (i < num_16bit_reads) { temp = 0; data_read(2, &temp); pbuf[i] = temp; }
RECURSIVE read_gram_loop(_, _, _, _, _, _)
read_gram_loop(w, d, i, num_16bit_reads, npixel, ub) ==
    IF i >= num_16bit_reads THEN w
    ELSE OnOk(Prim(w, d, "bus80.data_read", <<2, "rd">>), LAMBDA w1 :
           IF i >= npixel /\ ub = "fault" THEN Overrun(w1)
           ELSE read_gram_loop([w1 EXCEPT !.rbuf = @ \o w1.rx], d, i + 1,
                               num_16bit_reads, npixel, ub))

\* the reads of st7789_read_gram on the parallel bus; rbuf is the memory
\* image of what they stored at pbuf
read_gram_body(w, d, npixel, ub) ==
    IF w.dev[d].host_is_big_endian
    THEN OnOk(Prim(w, d, "bus80.data_read", <<npixel * 3, "rd">>),
              LAMBDA w1 :
                IF npixel * 3 > npixel * 2 /\ ub = "fault" THEN Overrun(w1)
                ELSE [w1 EXCEPT !.rbuf = w1.rx])
    ELSE read_gram_loop(w, d, 0, (npixel * 3) \div 2, npixel, ub)

\* if (!_continue) { COLMOD "\x06"; RAMRD; }
read_gram_start(w, d, continue) ==
    IF continue THEN Return(w, ALL_OK)
    ELSE OnOk(st7789_write_command(w, d, COLMOD, <<6>>, 1), LAMBDA w1 :
           st7789_write_command(w1, d, RAMRD, <<>>, 0))

st7789_read_gram(w, d, npixel, pbuf, continue, ub) ==
    IF pbuf = NULL THEN Return(w, E_INVALID_ARGUMENT)
    ELSE OnOk(read_gram_start(w, d, continue), LAMBDA w2 :
           OnOk(bus_aquire(w2, d), LAMBDA w3 :
             IF w3.dev[d].bus_mode = ST7789_BUS_MODE_8080
             THEN Let(read_gram_body(w3, d, npixel, ub), LAMBDA w4 :
                    IF w4.crashed THEN w4
                    ELSE ReleaseAndReturn(w4, d, w4.ret))
             \* else return E_INVALID_ARGUMENT; (not by way of the exit label)
             ELSE Return(w3, E_INVALID_ARGUMENT)))

(***************************************************************************)
(* Async streaming engine.                                                 *)
(***************************************************************************)
\* bookkeeping of a streaming session: the line events seen before the
\* first write-start (pre), the write-starts (nws), the line events after
\* the first write-start (post), the ending sequences completed (ends)
NewSess == [open |-> TRUE, nws |-> 0, pre |-> <<>>, post |-> <<>>, ends |-> 0]

\* bookkeeping of the registration: the handler and the argument of the
\* last stream_start call that passed its state checks
NoReg == [handler |-> "NULL", params |-> NULL]

\* bookkeeping of a handler call: what the handler found at its entry
NoEntry == [state |-> ST7789_ASYNC_STATE_IDLE, size |-> 0,
            handler |-> "NULL", params |-> NULL, reg |-> NoReg]

\* set_buff that, as the error message of its default branch words it, can
\* only be called when idle or transferring
set_buff_idle_or_transfering(w, d, buffer_size, pbuf) ==
    IF pbuf = NULL THEN Return(w, E_INVALID_ARGUMENT)
    ELSE IF w.dev[d].async_state \in {ST7789_ASYNC_STATE_IDLE,
                                      ST7789_ASYNC_STATE_TRANSFERING}
    THEN [w EXCEPT !.dev[d].async_state =
                       IF @ = ST7789_ASYNC_STATE_IDLE
                       THEN ST7789_ASYNC_STATE_BUFFER_LOADED
                       ELSE ST7789_ASYNC_STATE_BUFFER_RELOADED,
                   !.dev[d].gram_tx_buf_size = buffer_size,
                   !.dev[d].gram_tx_buf = pbuf,
                   !.ret = ALL_OK]
    ELSE Return(w, E_INVALID_OPERATION)

\* set_buff without "device->gram_tx_buf_size = buffer_size;"
set_buff_size_not_stored(w, d, buffer_size, pbuf) ==
    IF pbuf = NULL THEN Return(w, E_INVALID_ARGUMENT)
    ELSE [w EXCEPT !.dev[d].async_state =
                       IF @ \in {ST7789_ASYNC_STATE_BUFFER_LOADED,
                                 ST7789_ASYNC_STATE_IDLE}
                       THEN ST7789_ASYNC_STATE_BUFFER_LOADED
                       ELSE ST7789_ASYNC_STATE_BUFFER_RELOADED,
                   !.dev[d].gram_tx_buf = pbuf,
                   !.ret = ALL_OK]

st7789_update_gram_set_buff(w, d, buffer_size, pbuf) ==
    IF pbuf = NULL THEN Return(w, E_INVALID_ARGUMENT)
    ELSE IF w.dev[d].async_state \in {ST7789_ASYNC_STATE_BUFFER_LOADED,
                                      ST7789_ASYNC_STATE_IDLE}
    THEN [w EXCEPT !.dev[d].async_state = ST7789_ASYNC_STATE_BUFFER_LOADED,
                   !.dev[d].gram_tx_buf_size = buffer_size,
                   !.dev[d].gram_tx_buf = pbuf,
                   !.ret = ALL_OK]
    ELSE IF w.dev[d].async_state \in {ST7789_ASYNC_STATE_BUFFER_RELOADED,
                                      ST7789_ASYNC_STATE_TRANSFERING}
    THEN [w EXCEPT !.dev[d].async_state = ST7789_ASYNC_STATE_BUFFER_RELOADED,
                   !.dev[d].gram_tx_buf_size = buffer_size,
                   !.dev[d].gram_tx_buf = pbuf,
                   !.ret = ALL_OK]
    ELSE Return(w, E_INVALID_OPERATION)

\* error_exit: without "device->async_state = ST7789_ASYNC_STATE_IDLE;"
stream_start_error_exit_no_reset(w, d) ==
    ReleaseAndReturn([w EXCEPT !.sess[d].open = FALSE], d, w.ret)

\* error_exit: of st7789_update_gram_stream_start
stream_start_error_exit(w, d) ==
    ReleaseAndReturn([w EXCEPT !.dev[d].async_state = ST7789_ASYNC_STATE_IDLE,
                               !.sess[d].open = FALSE], d, w.ret)

\* the first transfer of a sequence: the memory write command and, on the
\* serial bus, data mode and chip select
stream_start_first(w, d) ==
    OnOk(st7789_write_command(w, d, RAMWR, <<>>, 0), LAMBDA w1 :
      IF w1.dev[d].bus_mode = ST7789_BUS_MODE_SPI
      THEN RunPrims(w1, d, << <<"gpio_dc_set", 1>>, <<"gpio_cs_set", 0>> >>)
      ELSE IF w1.dev[d].bus_mode = ST7789_BUS_MODE_8080 THEN w1
      ELSE Return(w1, E_INVALID_ARGUMENT))

RECURSIVE st7789_async_completed_notify(_, _)

\* the write-start primitive p of the bus layer.  On an asynchronous bus it
\* starts the transfer and returns; the completion is reported later, from
\* the bus interrupt.  On a blocking bus (sync) it transfers the data and
\* calls async_completed_notify itself before it returns the result of the
\* write.
write_async_start(w, d, p) ==
    Let(Prim(w, d, p, <<w.dev[d].gram_tx_buf_size, w.dev[d].gram_tx_buf>>),
        LAMBDA w1 :
          IF FAILED(w1.ret) \/ ~w1.sync[d] THEN w1
          ELSE Return(st7789_async_completed_notify(
                        [w1 EXCEPT !.inflight[d] = @ - 1], d),
                      ALL_OK))

\* send the data
stream_start_send(w, d) ==
    IF w.dev[d].bus_mode = ST7789_BUS_MODE_SPI
    THEN write_async_start(w, d, "spi.write_async_start")
    ELSE IF w.dev[d].bus_mode = ST7789_BUS_MODE_8080
    THEN write_async_start(w, d, "bus80.data_write_async_start")
    ELSE Return(w, E_INVALID_ARGUMENT)

\* st7789_update_gram_stream_start once the state checks have passed
stream_start_accepted(w, d, handler, params, first) ==
    OnOk(bus_aquire([w EXCEPT !.dev[d].handler = handler,
                              !.dev[d].handler_params = params,
                              !.reg[d] = [handler |-> handler,
                                          params |-> params],
                              !.sess[d] = IF first THEN NewSess ELSE @,
                              !.disp[d] = IF first THEN <<>> ELSE @], d),
         LAMBDA w2 :
      Let(IF first THEN stream_start_first(w2, d) ELSE w2, LAMBDA w3 :
        IF FAILED(w3.ret) THEN stream_start_error_exit(w3, d)
        ELSE Let(stream_start_send(
                   [w3 EXCEPT !.dev[d].async_state =
                                  ST7789_ASYNC_STATE_TRANSFERING], d),
                 LAMBDA w5 :
                   IF FAILED(w5.ret) THEN stream_start_error_exit(w5, d)
                   ELSE Return(w5, ALL_OK))))

\* stream_start without the test for a transfer under way
stream_start_no_busy_check(w, d, handler, params) ==
    IF /\ w.dev[d].async_state # ST7789_ASYNC_STATE_BUFFER_LOADED
       /\ w.dev[d].async_state # ST7789_ASYNC_STATE_BUFFER_RELOADED
       /\ w.dev[d].async_state # ST7789_ASYNC_STATE_TRANSFERING
    THEN Return(w, E_INVALID_OPERATION)
    ELSE stream_start_accepted(w, d, handler, params,
           w.dev[d].async_state # ST7789_ASYNC_STATE_BUFFER_RELOADED)

\* stream_start without the test for a staged buffer
stream_start_no_staged_check(w, d, handler, params) ==
    IF w.dev[d].async_state = ST7789_ASYNC_STATE_TRANSFERING
    THEN Return(w, E_INVALID_OPERATION)
    ELSE stream_start_accepted(w, d, handler, params,
           w.dev[d].async_state # ST7789_ASYNC_STATE_BUFFER_RELOADED)

\* stream_start that sends the memory write command with every chunk
stream_start_always_first(w, d, handler, params) ==
    IF w.dev[d].async_state = ST7789_ASYNC_STATE_TRANSFERING
    THEN Return(w, E_INVALID_OPERATION)
    ELSE IF /\ w.dev[d].async_state # ST7789_ASYNC_STATE_BUFFER_LOADED
            /\ w.dev[d].async_state # ST7789_ASYNC_STATE_BUFFER_RELOADED
    THEN Return(w, E_INVALID_OPERATION)
    ELSE OnOk(bus_aquire([w EXCEPT !.dev[d].handler = handler,
                                   !.dev[d].handler_params = params,
                                   !.sess[d] =
                                       IF w.dev[d].async_state #
                                            ST7789_ASYNC_STATE_BUFFER_RELOADED
                                       THEN NewSess ELSE @], d),
              LAMBDA w2 :
           Let(stream_start_first(w2, d), LAMBDA w3 :
             IF FAILED(w3.ret) THEN stream_start_error_exit(w3, d)
             ELSE Let(stream_start_send(
                        [w3 EXCEPT !.dev[d].async_state =
                                       ST7789_ASYNC_STATE_TRANSFERING], d),
                      LAMBDA w5 :
                        IF FAILED(w5.ret) THEN stream_start_error_exit(w5, d)
                        ELSE Return(w5, ALL_OK))))

st7789_update_gram_stream_start(w, d, handler, params) ==
    IF w.dev[d].async_state = ST7789_ASYNC_STATE_TRANSFERING
    THEN Return(w, E_INVALID_OPERATION)
    ELSE IF /\ w.dev[d].async_state # ST7789_ASYNC_STATE_BUFFER_LOADED
            /\ w.dev[d].async_state # ST7789_ASYNC_STATE_BUFFER_RELOADED
    THEN Return(w, E_INVALID_OPERATION)
    ELSE stream_start_accepted(w, d, handler, params,
           w.dev[d].async_state # ST7789_ASYNC_STATE_BUFFER_RELOADED)

(***************************************************************************)
(* Bulk-clear orchestrator.                                                *)
(***************************************************************************)
free(w, p) ==
    IF p = NULL THEN w
    ELSE [w EXCEPT !.heap[p].live = FALSE, !.heap[p].frees = @ + 1]

\* lines_to_write without the clamp to the buffer's capacity
LinesToWriteAllLeft(buf_size, width, lines_left) == lines_left

\* lines_to_write of st7789_clear_gram_set_buf
LinesToWrite(buf_size, width, lines_left) ==
    IF lines_left > buf_size \div width THEN buf_size \div width
    ELSE lines_left

st7789_clear_gram_set_buf(w, d, args) ==
    Let(LinesToWrite(w.heap[args].data.buf_size, w.dev[d].resolution.x,
                     w.cfg.lines_left),
        LAMBDA lines_to_write :
          OnOk(st7789_update_gram_set_buff(w, d,
                  w.dev[d].resolution.x * lines_to_write,
                  w.heap[args].data.buf),
               LAMBDA w1 :
                 [w1 EXCEPT !.cfg.lines_left = U16(@ - lines_to_write),
                            !.ret = ALL_OK]))

\* the clear handler freeing its blocks one chunk early
clear_gram_cplt_handler_early_free(w, d, pargs) ==
    IF w.cfg.lines_left > 0
    THEN OnOk(st7789_clear_gram_set_buf(w, d, pargs), LAMBDA w1 :
           OnOk(st7789_update_gram_stream_start(w1, d, "clear", pargs),
                LAMBDA w2 :
                  IF w2.cfg.lines_left > 0 THEN Return(w2, ALL_OK)
                  ELSE Return(free(free(w2, w2.heap[pargs].data.buf), pargs),
                              ALL_OK)))
    ELSE Return(w, ALL_OK)

st7789_clear_gram_cplt_handler(w, d, pargs) ==
    IF w.cfg.lines_left > 0
    THEN OnOk(st7789_clear_gram_set_buf(w, d, pargs), LAMBDA w1 :
           OnOk(st7789_update_gram_stream_start(w1, d, "clear", pargs),
                LAMBDA w2 : Return(w2, ALL_OK)))
    ELSE Return(free(free(w, w.heap[pargs].data.buf), pargs), ALL_OK)

(***************************************************************************)
(* Completion handlers of the application: the callback passed to          *)
(* update_gram_stream_start is caller-supplied code.  Modelled are a       *)
(* handler that does nothing, one that fails, one that stages the next     *)
(* buffer without starting it, and one that re-arms itself (set_buff and   *)
(* stream_start) while its counter is positive.                            *)
(***************************************************************************)
UserChunk == 4
UserBuf == CHOOSE b \in UserBufs : TRUE

\* the opaque argument the application registers with each of its handlers
UserArg(h) ==
    IF h = "h_fail" THEN 201
    ELSE IF h = "h_stage" THEN 202
    ELSE IF h = "h_chain" THEN 203
    ELSE NULL

h_stage(w, d) == st7789_update_gram_set_buff(w, d, UserChunk, UserBuf)

h_chain(w, d) ==
    IF w.user_left[d] > 0
    THEN OnOk(st7789_update_gram_set_buff(w, d, UserChunk, UserBuf),
              LAMBDA w1 :
                st7789_update_gram_stream_start(
                  [w1 EXCEPT !.user_left[d] = @ - 1], d, "h_chain",
                  UserArg("h_chain")))
    ELSE Return(w, ALL_OK)

\* (func)(device, device->handler_params) for a non-null func
CallHandler(w, d, handler, params) ==
    IF handler = "clear" THEN st7789_clear_gram_cplt_handler(w, d, params)
    ELSE IF handler = "h_stage" THEN h_stage(w, d)
    ELSE IF handler = "h_chain" THEN h_chain(w, d)
    ELSE IF handler = "h_fail" THEN Return(w, E_HARDWARE_ERROR)
    ELSE Return(w, ALL_OK)

\* error_exit: of st7789_async_completed_notify
notify_error_exit(w, d) ==
    ReleaseAndReturn([w EXCEPT !.dev[d].async_state = ST7789_ASYNC_STATE_IDLE,
                               !.sess[d].open = FALSE], d, w.ret)

\* notify without the ending sequence
notify_ending_omitted(w, d) == Return(w, ALL_OK)

\* mark as last transfer, send ending sequence
notify_ending(w, d) ==
    IF w.dev[d].bus_mode = ST7789_BUS_MODE_SPI
    THEN OnOk(RunPrims(w, d, << <<"gpio_dc_set", 1>>, <<"gpio_cs_set", 1>> >>),
              LAMBDA w1 : [w1 EXCEPT !.sess[d].ends = @ + 1])
    ELSE IF w.dev[d].bus_mode = ST7789_BUS_MODE_8080 THEN Return(w, ALL_OK)
    ELSE Return(w, E_INVALID_ARGUMENT)

\* CALL_NULLABLE_WITH_ERROR_EXIT(err, error_exit, device->handler, device,
\*                               device->handler_params)
notify_callback(w, d) ==
    IF w.dev[d].handler = "NULL" THEN Return(w, ALL_OK)
    ELSE Let(CallHandler([w EXCEPT !.hentry =
                                       [state |-> w.dev[d].async_state,
                                        size |-> w.dev[d].gram_tx_buf_size,
                                        handler |-> w.dev[d].handler,
                                        params |-> w.dev[d].handler_params,
                                        reg |-> w.reg[d]]],
                         d, w.dev[d].handler, w.dev[d].handler_params),
             LAMBDA w1 : [w1 EXCEPT !.hcalled = TRUE, !.hret = w1.ret])

\* notify that takes a completion in BufferReloaded as well
completed_notify_accepts_reloaded(w, d) ==
    IF w.dev[d].async_state \notin {ST7789_ASYNC_STATE_TRANSFERING,
                                    ST7789_ASYNC_STATE_BUFFER_RELOADED}
    THEN Return(w, E_INVALID_OPERATION)
    ELSE
      Let(notify_callback([w EXCEPT !.dev[d].gram_tx_buf_size = 0], d),
          LAMBDA w2 :
        IF FAILED(w2.ret) THEN notify_error_exit(w2, d)
        ELSE IF w2.dev[d].gram_tx_buf_size # 0 THEN Return(w2, ALL_OK)
        ELSE Let(notify_ending(w2, d), LAMBDA w3 :
               IF FAILED(w3.ret) THEN notify_error_exit(w3, d)
               ELSE [w3 EXCEPT !.dev[d].async_state = ST7789_ASYNC_STATE_IDLE,
                               !.sess[d].open = FALSE,
                               !.ret = ALL_OK]))

\* notify that ends the session whether or not the handler has staged a
\* buffer
completed_notify_always_ends(w, d) ==
    IF w.dev[d].async_state # ST7789_ASYNC_STATE_TRANSFERING
    THEN Return(w, E_INVALID_OPERATION)
    ELSE
      Let(notify_callback([w EXCEPT !.dev[d].gram_tx_buf_size = 0], d),
          LAMBDA w2 :
        IF FAILED(w2.ret) THEN notify_error_exit(w2, d)
        ELSE Let(notify_ending(w2, d), LAMBDA w3 :
               IF FAILED(w3.ret) THEN notify_error_exit(w3, d)
               ELSE [w3 EXCEPT !.dev[d].async_state = ST7789_ASYNC_STATE_IDLE,
                               !.sess[d].open = FALSE,
                               !.ret = ALL_OK]))

\* notify that calls the handler first and resets the buffer size after it
completed_notify_reset_after_handler(w, d) ==
    IF w.dev[d].async_state # ST7789_ASYNC_STATE_TRANSFERING
    THEN Return(w, E_INVALID_OPERATION)
    ELSE
      Let(notify_callback(w, d), LAMBDA w1 :
        Let([w1 EXCEPT !.dev[d].gram_tx_buf_size = 0], LAMBDA w2 :
          IF FAILED(w2.ret) THEN notify_error_exit(w2, d)
          ELSE Let(notify_ending(w2, d), LAMBDA w3 :
                 IF FAILED(w3.ret) THEN notify_error_exit(w3, d)
                 ELSE [w3 EXCEPT !.dev[d].async_state =
                                     ST7789_ASYNC_STATE_IDLE,
                                 !.sess[d].open = FALSE,
                                 !.ret = ALL_OK])))

st7789_async_completed_notify(w, d) ==
    IF w.dev[d].async_state # ST7789_ASYNC_STATE_TRANSFERING
    THEN Return(w, E_INVALID_OPERATION)
    ELSE
      Let(notify_callback([w EXCEPT !.dev[d].gram_tx_buf_size = 0], d),
          LAMBDA w2 :
        IF FAILED(w2.ret) THEN notify_error_exit(w2, d)
        ELSE IF w2.dev[d].gram_tx_buf_size # 0 THEN Return(w2, ALL_OK)
        ELSE Let(notify_ending(w2, d), LAMBDA w3 :
               IF FAILED(w3.ret) THEN notify_error_exit(w3, d)
               ELSE [w3 EXCEPT !.dev[d].async_state = ST7789_ASYNC_STATE_IDLE,
                               !.sess[d].open = FALSE,
                               !.ret = ALL_OK]))

\* malloc: the new block's address, or NULL when the allocation fails
NewBlock(w, ok) == IF ok THEN Len(w.heap) + 1 ELSE NULL

malloc(w, ok, data) ==
    IF ok THEN [w EXCEPT !.heap = Append(@, [live |-> TRUE, frees |-> 0,
                                               data |-> data])]
    ELSE w

\* display_clear_gram_async that adds the panel's lines to those a clear in
\* progress has left
clear_gram_async_body_adds_lines(w, d, color, pbuf, args, ub) ==
    IF args = NULL /\ ub = "fault"
    THEN [w EXCEPT !.crashed = TRUE, !.ret = E_HARDWARE_ERROR]
    ELSE IF pbuf = NULL \/ args = NULL THEN Return(w, E_MEMORY_ALLOC_FAILED)
    ELSE OnOk(st7789_display_set_window(w, d,
                [top |-> 0, left |-> 0, bottom |-> w.dev[d].resolution.y,
                 right |-> w.dev[d].resolution.x]),
              LAMBDA w3 :
                Return(st7789_clear_gram_cplt_handler(
                         [w3 EXCEPT !.cfg = [clear_color |-> color,
                                             lines_left |->
                                                 U16(w3.cfg.lines_left
                                                     + w3.dev[d].resolution.y)]],
                         d, args),
                       ALL_OK))

\* display_clear_gram_async after its two allocations
clear_gram_async_body(w, d, color, pbuf, args, ub) ==
    \* args->buf_size = ... is executed before args is tested: with
    \* args == NULL the store goes to address 0, which either faults
    \* (ub = "fault") or has no visible effect
    IF args = NULL /\ ub = "fault"
    THEN [w EXCEPT !.crashed = TRUE, !.ret = E_HARDWARE_ERROR]
    ELSE IF pbuf = NULL \/ args = NULL THEN Return(w, E_MEMORY_ALLOC_FAILED)
    ELSE OnOk(st7789_display_set_window(w, d,
                [top |-> 0, left |-> 0, bottom |-> w.dev[d].resolution.y,
                 right |-> w.dev[d].resolution.x]),
              LAMBDA w3 :
                \* the handler's result is dropped
                Return(st7789_clear_gram_cplt_handler(
                         [w3 EXCEPT !.cfg = [clear_color |-> color,
                                             lines_left |-> w3.dev[d].resolution.y]],
                         d, args),
                       ALL_OK))

st7789_display_clear_gram_async(w, d, color, m1, m2, ub) ==
    \* pbuf[i] = U16ECV(color) for i < cache_buffer_size;
    \* args->buf_size is a uint16_t
    Let(malloc(w, m1, [buf |-> NULL,
                       buf_size |-> cache_line_count * w.dev[d].resolution.x,
                       fill |-> U16ECV(color)]),
        LAMBDA w1 :
      Let(malloc(w1, m2, [buf |-> NewBlock(w, m1),
                          buf_size |-> U16(cache_line_count * w.dev[d].resolution.x),
                          fill |-> 0]),
          LAMBDA w2 :
            clear_gram_async_body(w2, d, color, NewBlock(w, m1),
                                  NewBlock(w1, m2), ub)))

(***************************************************************************)
(* State.                                                                  *)
(***************************************************************************)
VARIABLES
    dev,            \* the st7789_device_t / st7735_device_t structs
    clear_config,   \* static st7789_gram_clear_config
    heap,           \* the blocks malloc returned
    line,           \* level of the chip-select and data/command lines
    hal,            \* the bus layer: lock depth, transfers in flight, the
                    \* chunks dispatched in the session, the primitive calls
                    \* of the last API call, the frame memory behind the
                    \* parallel bus, the bytes the last read_gram stored
    sess,           \* bookkeeping of the streaming session
    reg,            \* bookkeeping of the registered completion handler
    app,            \* the application: its handler's counter, call budget
    last,           \* the last API call: name, device before it, result
    clr,            \* bookkeeping of an undisturbed asynchronous clear
    wt,             \* a call of wait_async_complete and the tick counter
    tmr,            \* timer.c: system_clk and a call of sys_delay_ms
    adc,            \* cs123x.c: a call of cs123x_wait_data_ready and the
                    \* time base of its HAL
    oled            \* ssd1306.c: the device struct, the address the panel
                    \* was sent, the last API call

vars == <<dev, clear_config, heap, line, hal, sess, reg, app, last, clr, wt,
          tmr, adc, oled>>

(***************************************************************************)
(* uint32_t values are pairs of 16-bit halves: the tick counter            *)
(* system_clk.cnt, the tick read at entry, the timeout and the difference. *)
(***************************************************************************)
Nat32(n) == [hi |-> (n \div 65536) % 65536, lo |-> n % 65536]

\* ++system_clk.cnt
Inc32(v) ==
    IF v.lo = 65535 THEN [hi |-> (v.hi + 1) % 65536, lo |-> 0]
    ELSE [hi |-> v.hi, lo |-> v.lo + 1]

\* a - b in uint32_t
Sub32(a, b) ==
    [hi |-> (a.hi - b.hi - (IF a.lo < b.lo THEN 1 ELSE 0) + 65536) % 65536,
     lo |-> (a.lo - b.lo + 65536) % 65536]

\* a > b in uint32_t
Gt32(a, b) == a.hi > b.hi \/ (a.hi = b.hi /\ a.lo > b.lo)

\* a + b in uint32_t
Add32(a, b) ==
    [hi |-> (a.hi + b.hi + (a.lo + b.lo) \div 65536) % 65536,
     lo |-> (a.lo + b.lo) % 65536]

\* a >= b in uint32_t
Ge32(a, b) == a = b \/ Gt32(a, b)

UINT32_MAX == [hi |-> 65535, lo |-> 65535]

\* no call of sys_delay_ms was made; system_clk.cnt reads t and
\* system_clk.cnt_hi reads 0
NoDelayAt(t) ==
    [pc |-> "none", cnt |-> t, cnt_hi |-> Nat32(0), ms |-> 0,
     tick_cnt_old |-> Nat32(0), tick_cnt_hi_old |-> Nat32(0),
     target_tick_cnt |-> Nat32(0), target_tick_cnt_hi |-> Nat32(0),
     elapsed |-> 0, ticks |-> 0]

\* no call of cs123x_wait_data_ready was made; get_time_ms() reads t
AdcIdleAt(t) ==
    [pc |-> "none", time |-> t, start |-> Nat32(0), now |-> Nat32(0),
     timeout_ms |-> Nat32(0), ready |-> FALSE, checked |-> FALSE,
     expired |-> FALSE, ret |-> ALL_OK, ticks |-> 0]

\* the SSD1306 after ssd1306_init (memset(device, 0, ...)) with or without
\* the optional spi_aquire / spi_release, the panel addressed at row 0,
\* column 0 and no API call made
OledAfterInit(lock) ==
    [write_offset |-> 0, has_lock |-> lock, sent |-> [row |-> 0, col |-> 0],
     op |-> "init", pre |-> 0, w_size |-> 0, ret |-> ALL_OK, calls |-> 0,
     faults |-> 0, rows |-> 0, bytes |-> 0]

\* no call of wait_async_complete was made; the tick counter reads t
NotWaiting(t) ==
    [pc |-> "none", tick |-> t, ms |-> Nat32(0), timeout |-> Nat32(0),
     ret |-> ALL_OK, idle_at_entry |-> FALSE, elapsed |-> 0, seen |-> 0,
     polled |-> FALSE, ticks |-> 0]

NoWait == NotWaiting(Nat32(0))

HostEndian == {FALSE}

World(f) ==
    [dev |-> dev, cfg |-> clear_config, heap |-> heap, line |-> line,
     held |-> hal.held, inflight |-> hal.inflight, disp |-> hal.disp,
     sess |-> sess, user_left |-> app.user_left, crashed |-> app.crashed,
     log |-> <<>>, ncalls |-> 0, failAt |-> f, ret |-> ALL_OK,
     hcalled |-> FALSE, hret |-> ALL_OK,
     gram |-> hal.gram, rx |-> <<>>, rbuf |-> <<>>,
     reg |-> reg, hentry |-> NoEntry, sync |-> hal.sync]

\* the world after an API call becomes the state
Store(w, op, d, arg) ==
    /\ dev' = w.dev
    /\ clear_config' = w.cfg
    /\ heap' = w.heap
    /\ line' = w.line
    /\ hal' = [held |-> w.held, inflight |-> w.inflight, disp |-> w.disp,
               log |-> w.log, gram |-> w.gram, rbuf |-> w.rbuf,
               sync |-> w.sync]
    /\ sess' = w.sess
    /\ reg' = w.reg
    /\ last' = [op |-> op, d |-> d, pre |-> dev[d], arg |-> arg,
                ret |-> w.ret, fail |-> w.failAt,
                hcalled |-> w.hcalled, hret |-> w.hret,
                hentry |-> w.hentry]
    /\ UNCHANGED <<wt, tmr, adc, oled>>

\* the state after st7789_init / st7735_init
InitDevice(p, m, lock, be) ==
    [ctrl |-> p.ctrl, bus_mode |-> m, host_is_big_endian |-> be,
     has_lock |-> lock, resolution |-> [x |-> p.x, y |-> p.y],
     async_state |-> ST7789_ASYNC_STATE_IDLE,
     handler |-> "NULL", handler_params |-> NULL,
     gram_tx_buf |-> NULL, gram_tx_buf_size |-> 0]

NoRect == [top |-> 0, left |-> 0, bottom |-> 0, right |-> 0]

NoArg == [size |-> 0, buf |-> NULL, handler |-> "NULL", command |-> 0,
          pargs |-> <<>>, rect |-> NoRect, pixels |-> <<>>, cont |-> FALSE,
          appended |-> <<>>]

\* the world after st7789_init / st7735_init of the devices DOMAIN cs, the
\* device d with the configuration cs[d]; the static clear configuration
\* is one for all of them
FreshWorldOf(cs, be) ==
    [dev |-> [d \in DOMAIN cs |->
                 InitDevice(cs[d].panel, cs[d].mode, cs[d].lock, be)],
     cfg |-> [clear_color |-> 0, lines_left |-> 0],
     heap |-> <<>>,
     line |-> [d \in DOMAIN cs |-> [cs |-> 1, dc |-> 1]],
     held |-> 0, inflight |-> [d \in DOMAIN cs |-> 0],
     disp |-> [d \in DOMAIN cs |-> <<>>],
     sess |-> [d \in DOMAIN cs |-> [NewSess EXCEPT !.open = FALSE]],
     user_left |-> [d \in DOMAIN cs |-> 0], crashed |-> FALSE,
     log |-> <<>>, ncalls |-> 0, failAt |-> 0, ret |-> ALL_OK,
     hcalled |-> FALSE, hret |-> ALL_OK,
     gram |-> [d \in DOMAIN cs |-> NoGram], rx |-> <<>>, rbuf |-> <<>>,
     reg |-> [d \in DOMAIN cs |-> NoReg], hentry |-> NoEntry,
     sync |-> [d \in DOMAIN cs |-> FALSE]]

\* the world after st7789_init / st7735_init of every device
FreshWorld(c, be) == FreshWorldOf([d \in Devs |-> c], be)

\* the variables hold the world w and no API call has been made; the
\* application makes at most budget API calls
BootDriver(w, budget) ==
    /\ dev = w.dev
    /\ clear_config = w.cfg
    /\ heap = w.heap
    /\ line = w.line
    /\ hal = [held |-> w.held, inflight |-> w.inflight, disp |-> w.disp,
              log |-> <<>>, gram |-> w.gram, rbuf |-> <<>>,
              sync |-> w.sync]
    /\ sess = w.sess
    /\ reg = w.reg
    /\ app = [user_left |-> w.user_left, calls |-> 0, clears |-> 0,
              faults |-> 0, crashed |-> FALSE, budget |-> budget]
    /\ last = [op |-> "init", d |-> CHOOSE d \in Devs : TRUE,
               pre |-> w.dev[CHOOSE d \in Devs : TRUE], arg |-> NoArg,
               ret |-> ALL_OK, fail |-> 0, hcalled |-> FALSE, hret |-> ALL_OK,
               hentry |-> NoEntry]
    /\ clr = [on |-> FALSE, d |-> CHOOSE d \in Devs : TRUE,
              ret |-> ALL_OK, notifies |-> 0,
              pbuf |-> NULL, args |-> NULL]

\* the same, with the timer, the ADC and the OLED not in use
BootWith(w, budget) ==
    /\ BootDriver(w, budget)
    /\ tmr = NoDelayAt(Nat32(0))
    /\ adc = AdcIdleAt(Nat32(0))
    /\ oled = OledAfterInit(FALSE)

Boot(w) == BootWith(w, MaxCalls)

Init ==
    /\ \E c \in Configs, be \in HostEndian : Boot(FreshWorld(c, be))
    /\ wt = NoWait

(***************************************************************************)
(* Actions: one per API call.  A call is made with each primitive call of  *)
(* its fault-free run as the one that fails, and with none failing.        *)
(***************************************************************************)
CanCall == ~app.crashed /\ app.calls < app.budget

\* the primitive calls of an API call that may fail: any of the n calls of
\* its fault-free run, or none (0)
FaultPoints(n) == IF app.faults < MaxFaults THEN 0..n ELSE {0}

Faulted(f) == IF f = 0 THEN 0 ELSE 1

\* the application calls update_gram_set_buff
SetBuffer(d) ==
    /\ CanCall
    /\ \E size \in UserSizes, buf \in UserBufs \cup {NULL} :
         \E w \in {st7789_update_gram_set_buff(World(0), d, size, buf)} :
           Store(w, "set_buffer", d, [NoArg EXCEPT !.size = size, !.buf = buf])
    /\ app' = [app EXCEPT !.calls = @ + 1]
    /\ clr' = [clr EXCEPT !.on = FALSE]

\* the application calls update_gram_stream_start
StartStream(d) ==
    /\ CanCall
    /\ \E h \in UserHandlers :
       \E n \in (IF h = "h_chain" THEN 0..MaxUserChunks ELSE {app.user_left[d]}) :
         \E f \in FaultPoints(
                  st7789_update_gram_stream_start(
                    [World(0) EXCEPT !.user_left[d] = n], d, h,
                    UserArg(h)).ncalls) :
           \E w \in {st7789_update_gram_stream_start(
                      [World(f) EXCEPT !.user_left[d] = n], d, h,
                      UserArg(h))} :
                   /\ Store(w, "start_stream", d, [NoArg EXCEPT !.handler = h])
                   /\ app' = [app EXCEPT !.calls = @ + 1,
                                         !.faults = @ + Faulted(f),
                                         !.user_left = w.user_left]
    /\ clr' = [clr EXCEPT !.on = FALSE]

\* the bus layer reports the completion of a dispatched transfer
Notify(d) ==
    /\ ~app.crashed
    /\ hal.inflight[d] > 0
    /\ \E f \in FaultPoints(
              st7789_async_completed_notify(
                [World(0) EXCEPT !.inflight[d] = @ - 1], d).ncalls) :
         \E w \in {st7789_async_completed_notify(
                    [World(f) EXCEPT !.inflight[d] = @ - 1], d)} :
                 /\ Store(w, "notify", d, NoArg)
                 /\ app' = [app EXCEPT !.user_left = w.user_left,
                                       !.faults = @ + Faulted(f)]
                 /\ clr' = IF f = 0 THEN [clr EXCEPT !.notifies = @ + 1]
                           ELSE [clr EXCEPT !.on = FALSE]

\* async_completed_notify is called although no transfer is in flight
SpuriousNotify(d) ==
    /\ CanCall
    /\ hal.inflight[d] = 0
    /\ \E f \in FaultPoints(
              st7789_async_completed_notify(World(0), d).ncalls) :
         \E w \in {st7789_async_completed_notify(World(f), d)} :
                 /\ Store(w, "notify", d, NoArg)
                 /\ app' = [app EXCEPT !.calls = @ + 1,
                                       !.faults = @ + Faulted(f),
                                       !.user_left = w.user_left]
    /\ clr' = [clr EXCEPT !.on = FALSE]

\* the application calls display_clear_gram_async
ClearAsync(d) ==
    /\ CanCall
    /\ app.clears < MaxClears * Cardinality(DOMAIN dev)
    /\ \E color \in Colors, m1 \in BOOLEAN, m2 \in BOOLEAN :
       \E ub \in (IF m2 THEN {"none"} ELSE {"fault", "ignored"}) :
         \E f \in FaultPoints(
                  st7789_display_clear_gram_async(
                    [World(0) EXCEPT !.disp[d] = <<>>], d, color, m1, m2, ub).ncalls) :
           \E w \in {st7789_display_clear_gram_async(
                      [World(f) EXCEPT !.disp[d] = <<>>], d, color, m1, m2, ub)} :
                   /\ Store(w, "clear_async", d, NoArg)
                   /\ app' = [app EXCEPT !.calls = @ + 1, !.clears = @ + 1,
                                         !.faults = @ + Faulted(f),
                                         !.crashed = w.crashed]
                   /\ clr' = [on |-> /\ dev[d].async_state = ST7789_ASYNC_STATE_IDLE
                                     /\ hal.inflight[d] = 0
                                     /\ m1 /\ m2 /\ f = 0,
                              d |-> d,
                              ret |-> w.ret,
                              notifies |-> 0,
                              pbuf |-> NewBlock(World(0), m1),
                              args |-> IF m1 /\ m2 THEN Len(heap) + 2 ELSE NULL]

Next ==
    \E d \in Devs :
        \/ SetBuffer(d)
        \/ StartStream(d)
        \/ Notify(d)
        \/ SpuriousNotify(d)
        \/ ClearAsync(d)

Spec == Init /\ [][Next]_vars

(***************************************************************************)
(* The bulk clear on its own, over the panel geometries: the application   *)
(* calls display_clear_gram_async and the bus layer reports completions.   *)
(***************************************************************************)
InitClear ==
    /\ \E c \in ClearConfigs, be \in HostEndian : Boot(FreshWorld(c, be))
    /\ wt = NoWait

NextClear ==
    \E d \in Devs :
        \/ ClearAsync(d)
        \/ Notify(d)

SpecClear == InitClear /\ [][NextClear]_vars

(***************************************************************************)
(* wait_async_complete: a busy loop on the async state, one step per read  *)
(* of a volatile, with the SysTick interrupt and the completion interrupt  *)
(* of the bus between the steps.                                           *)
(***************************************************************************)
\* ticks of the SysTick interrupt in one behaviour
MaxTicks == 4

\* values of the tick counter at the start: zero, two ticks before the
\* 32-bit counter wraps, one tick before the low half carries
StartTicks ==
    {Nat32(0), [hi |-> 65535, lo |-> 65534], [hi |-> 0, lo |-> 65535]}

\* timeouts: 0, 1, 2 and UINT32_MAX
WaitTimeouts ==
    {Nat32(0), Nat32(1), Nat32(2), [hi |-> 65535, lo |-> 65535]}

WaitConfigs == {c \in Configs : c.mode # BUS_MODE_INVALID /\ c.lock}

\* a device with one transfer under way: set_buff and stream_start called
\* after init
Streaming(w, d) ==
    Let(st7789_update_gram_set_buff(w, d, UserChunk, UserBuf), LAMBDA w1 :
      st7789_update_gram_stream_start(w1, d, "NULL", NULL))

InitWait ==
    /\ \E c \in WaitConfigs, be \in HostEndian :
         \E w \in {Streaming(FreshWorld(c, be), CHOOSE d \in Devs : TRUE)} :
           Boot(w)
    /\ \E t \in StartTicks : wt = NotWaiting(t)

\* sys_get_tick(): return system_clk.cnt;
sys_get_tick == wt.tick

\* "sys_get_tick() - ms" with the difference taken without wrap-around
TickDeltaNoWrap(now, ms) == IF Gt32(ms, now) THEN Nat32(0) ELSE Sub32(now, ms)

\* uint32_t delta = sys_get_tick() - ms;
TickDelta(now, ms) == Sub32(now, ms)

\* the call: uint32_t ms = sys_get_tick();
WaitCall(d) ==
    /\ wt.pc = "none"
    /\ \E timeout \in WaitTimeouts :
         wt' = [wt EXCEPT !.pc = "test", !.ms = sys_get_tick,
                          !.timeout = timeout,
                          !.idle_at_entry =
                              (dev[d].async_state = ST7789_ASYNC_STATE_IDLE),
                          !.elapsed = 0, !.seen = 0, !.polled = FALSE]
    /\ UNCHANGED <<dev, clear_config, heap, line, hal, sess, reg, app, last, clr>>
    /\ UNCHANGED <<tmr, adc, oled>>

\* while (device->async_state != ST7789_ASYNC_STATE_IDLE) ... return ALL_OK;
WaitTest(d) ==
    /\ wt.pc = "test"
    /\ wt' = IF dev[d].async_state # ST7789_ASYNC_STATE_IDLE
             THEN [wt EXCEPT !.pc = "read"]
             ELSE [wt EXCEPT !.pc = "done", !.ret = ALL_OK]
    /\ UNCHANGED <<dev, clear_config, heap, line, hal, sess, reg, app, last, clr>>
    /\ UNCHANGED <<tmr, adc, oled>>

\* delta = sys_get_tick() - ms; if (delta > timeout) return E_HARDWARE_TIMEOUT;
WaitRead(d) ==
    /\ wt.pc = "read"
    /\ wt' = IF Gt32(TickDelta(sys_get_tick, wt.ms), wt.timeout)
             THEN [wt EXCEPT !.pc = "done", !.ret = E_HARDWARE_TIMEOUT,
                             !.seen = wt.elapsed, !.polled = TRUE]
             ELSE [wt EXCEPT !.pc = "test",
                             !.seen = wt.elapsed, !.polled = TRUE]
    /\ UNCHANGED <<dev, clear_config, heap, line, hal, sess, reg, app, last, clr>>
    /\ UNCHANGED <<tmr, adc, oled>>

\* systick_timer_isr: ++system_clk.cnt (elapsed counts the ticks since the
\* entry of wait_async_complete)
TickISR ==
    /\ wt.ticks < MaxTicks
    /\ wt' = [wt EXCEPT !.tick = Inc32(@), !.ticks = @ + 1,
                        !.elapsed = IF wt.pc \in {"test", "read"}
                                    THEN @ + 1 ELSE @]
    /\ UNCHANGED <<dev, clear_config, heap, line, hal, sess, reg, app, last, clr>>
    /\ UNCHANGED <<tmr, adc, oled>>

NextWait ==
    \/ \E d \in Devs :
          \/ WaitCall(d)
          \/ WaitTest(d)
          \/ WaitRead(d)
          \/ Notify(d)
    \/ TickISR

SpecWait == InitWait /\ [][NextWait]_vars

(***************************************************************************)
(* The command sequencer on its own: write_command, called as the public   *)
(* operations of the drivers call it, and display_set_window, on both      *)
(* controllers, every bus mode, with and without bus lock.                 *)
(***************************************************************************)
CmdPanels == {BasePanel, [ctrl |-> "st7735", x |-> 162, y |-> 6]}

\* the ST7789 in every bus mode with and without bus lock; the ST7735,
\* whose command sequencer is the same text, on the serial bus with lock
CmdConfigs ==
    {c \in AllConfigs :
        /\ c.panel \in CmdPanels
        /\ c.panel.ctrl = "st7735" =>
               (c.mode = ST7789_BUS_MODE_SPI /\ c.lock)}

\* API calls of one behaviour of the command model
MaxCmdCalls == 2

CanCallCmd == CanCall /\ app.calls < MaxCmdCalls

\* the endianness flag only enters the parallel-bus branch
CmdEndian(c) == IF c.mode = ST7789_BUS_MODE_8080 THEN BOOLEAN ELSE {FALSE}

\* commands as the drivers issue them: RAMWR without arguments
\* (append_gram, stream_start) and COLMOD with one (init, read_gram_end)
CmdInputs ==
    { [command |-> RAMWR, pargs |-> <<>>, nargs |-> 0],
      [command |-> COLMOD, pargs |-> <<5>>, nargs |-> 1] }

\* rectangles: one inside every native range, the same with one bound moved
\* to the edges of the native ranges and beyond, and the full-screen
\* rectangle of a panel one line too high
BaseRect == [top |-> 0, left |-> 0, bottom |-> 4, right |-> 2]

RectEdges == {-1, 0, 162, 163, 240, 241, 320, 321}

WindowRects ==
    {BaseRect, [top |-> 0, left |-> 0, bottom |-> 321, right |-> 240]}
    \cup {[BaseRect EXCEPT !.top = v] : v \in RectEdges}
    \cup {[BaseRect EXCEPT !.bottom = v] : v \in RectEdges}
    \cup {[BaseRect EXCEPT !.left = v] : v \in RectEdges}
    \cup {[BaseRect EXCEPT !.right = v] : v \in RectEdges}

InitCmd ==
    /\ \E c \in CmdConfigs : \E be \in CmdEndian(c) : Boot(FreshWorld(c, be))
    /\ wt = NoWait

\* a public operation calls st7789_write_command
WriteCommand(d) ==
    /\ CanCallCmd
    /\ \E c \in CmdInputs :
         \E f \in FaultPoints(
                  st7789_write_command(World(0), d, c.command, c.pargs,
                                       c.nargs).ncalls) :
           \E w \in {st7789_write_command(World(f), d, c.command, c.pargs,
                                          c.nargs)} :
             /\ Store(w, "write_command", d,
                      [NoArg EXCEPT !.command = c.command, !.pargs = c.pargs,
                                    !.size = c.nargs])
             /\ app' = [app EXCEPT !.calls = @ + 1,
                                   !.faults = @ + Faulted(f)]
    /\ clr' = [clr EXCEPT !.on = FALSE]

\* the application calls display_set_window
SetWindow(d) ==
    /\ CanCallCmd
    /\ \E rect \in WindowRects :
         \E f \in FaultPoints(
                  st7789_display_set_window(World(0), d, rect).ncalls) :
           \E w \in {st7789_display_set_window(World(f), d, rect)} :
             /\ Store(w, "set_window", d, [NoArg EXCEPT !.rect = rect])
             /\ app' = [app EXCEPT !.calls = @ + 1,
                                   !.faults = @ + Faulted(f)]
    /\ clr' = [clr EXCEPT !.on = FALSE]

NextCmd ==
    \E d \in Devs :
        \/ WriteCommand(d)
        \/ SetWindow(d)

SpecCmd == InitCmd /\ [][NextCmd]_vars

(***************************************************************************)
(* The pixel path: append_gram and read_gram next to the streaming engine, *)
(* on a serial bus, a parallel bus of a little-endian and of a big-endian  *)
(* host, and with the bus mode that names no bus.                          *)
(***************************************************************************)
\* API calls of one behaviour of the pixel model
MaxPixelCalls == 2
\* pixels of one append_gram or read_gram
MaxPixels == 2

PixelConfigs == {c \in AllConfigs : c.panel = BasePanel /\ c.lock}

\* the i-th pixel of the application's buffer: 0x1234, 0x2468, ...
PixelAt(i) == (4660 * i) % 65536

PixelData == {[i \in 1..n |-> PixelAt(i)] : n \in 0..MaxPixels}

InitPixel ==
    /\ \E c \in PixelConfigs : \E be \in CmdEndian(c) : Boot(FreshWorld(c, be))
    /\ wt = NoWait

CanCallPixel == CanCall /\ app.calls < MaxPixelCalls

\* the application calls append_gram
AppendGram(d) ==
    /\ CanCallPixel
    /\ \E pixels \in PixelData, w_data \in UserBufs \cup {NULL} :
         \E f \in FaultPoints(
                  st7789_append_gram(World(0), d, w_data, pixels).ncalls) :
           \E w \in {st7789_append_gram(World(f), d, w_data, pixels)} :
             /\ Store(w, "append_gram", d,
                      [NoArg EXCEPT !.buf = w_data, !.pixels = pixels,
                                    !.size = Len(pixels)])
             /\ app' = [app EXCEPT !.calls = @ + 1,
                                   !.faults = @ + Faulted(f)]
    /\ clr' = [clr EXCEPT !.on = FALSE]

\* the pixels the last API call has written to the frame memory: those of
\* a successful append_gram
JustAppended ==
    IF last.op = "append_gram" /\ last.ret = ALL_OK THEN last.arg.pixels
    ELSE <<>>

\* the application calls read_gram
ReadGram(d) ==
    /\ CanCallPixel
    /\ \E npixel \in 0..MaxPixels, pbuf \in UserBufs \cup {NULL},
          continue \in BOOLEAN, ub \in {"fault", "silent"} :
         \E f \in FaultPoints(
                  st7789_read_gram(World(0), d, npixel, pbuf, continue,
                                   "silent").ncalls) :
           \E w \in {st7789_read_gram(World(f), d, npixel, pbuf, continue,
                                      ub)} :
             /\ Store(w, "read_gram", d,
                      [NoArg EXCEPT !.buf = pbuf, !.size = npixel,
                                    !.cont = continue,
                                    !.appended = JustAppended])
             /\ app' = [app EXCEPT !.calls = @ + 1,
                                   !.faults = @ + Faulted(f),
                                   !.crashed = w.crashed]
    /\ clr' = [clr EXCEPT !.on = FALSE]

NextPixel ==
    \E d \in Devs :
        \/ AppendGram(d)
        \/ ReadGram(d)
        \/ CanCallPixel /\ SetBuffer(d)
        \/ CanCallPixel /\ StartStream(d)
        \/ Notify(d)

SpecPixel == InitPixel /\ [][NextPixel]_vars

(***************************************************************************)
(* Two devices of one controller type clearing at the same time: each has  *)
(* its device struct, its lines and its transfers; the static clear        *)
(* configuration of the driver is the one they share.                      *)
(***************************************************************************)
\* two ST7789 panels on the serial bus, 3 x 13 and 2 x 4
TwoConfigs ==
    1 :> [panel |-> [ctrl |-> "st7789", x |-> 3, y |-> 13],
          mode |-> ST7789_BUS_MODE_SPI, lock |-> TRUE]
    @@ 2 :> [panel |-> BasePanel, mode |-> ST7789_BUS_MODE_SPI,
             lock |-> TRUE]

InitTwo ==
    /\ \E be \in HostEndian : Boot(FreshWorldOf(TwoConfigs, be))
    /\ wt = NoWait

\* the step is a call in which no primitive fails (bus errors are the
\* subject of the one-device models)
NoBusError == app'.faults = app.faults

NextTwo ==
    \E d \in DOMAIN TwoConfigs :
        \/ ClearAsync(d) /\ NoBusError
        \/ Notify(d) /\ NoBusError

SpecTwo == InitTwo /\ [][NextTwo]_vars

(***************************************************************************)
(* The streaming engine on its own, for sequences of four calls: the       *)
(* application calls set_buff and stream_start, the bus layer calls        *)
(* async_completed_notify, with and without a transfer in flight.          *)
(***************************************************************************)
\* API calls of one behaviour of the engine model
MaxStreamCalls == 4

\* the serial and the parallel bus, with bus lock
StreamConfigs ==
    {c \in Configs : c.mode # BUS_MODE_INVALID /\ c.lock}

InitStream ==
    /\ \E c \in StreamConfigs, be \in HostEndian :
         BootWith(FreshWorld(c, be), MaxStreamCalls)
    /\ wt = NoWait

NextStream ==
    \E d \in Devs :
        \/ SetBuffer(d)
        \/ StartStream(d)
        \/ Notify(d)
        \/ SpuriousNotify(d)

SpecStream == InitStream /\ [][NextStream]_vars

(***************************************************************************)
(* The bulk clear with the completions delivered: every transfer the       *)
(* driver dispatches is answered by the bus layer in the end (the          *)
(* completion interrupt of the transfer).                                  *)
(***************************************************************************)
SpecClearFair == SpecClear /\ WF_vars(\E d \in Devs : Notify(d))

(***************************************************************************)
(* A blocking bus: the write-start primitive returns when the data is out  *)
(* and has called async_completed_notify by then.                          *)
(***************************************************************************)
\* the world after init of a device on a blocking bus
SyncWorld(c, be) ==
    [FreshWorld(c, be) EXCEPT !.sync = [d \in Devs |-> TRUE]]

InitSync ==
    /\ \E c \in ClearConfigs, be \in HostEndian : Boot(SyncWorld(c, be))
    /\ wt = NoWait

NextSync ==
    \E d \in Devs :
        \/ ClearAsync(d)
        \/ SetBuffer(d)
        \/ StartStream(d)

SpecSync == InitSync /\ [][NextSync]_vars

(***************************************************************************)
(* Vocabulary of the properties.                                           *)
(***************************************************************************)
RECURSIVE SumSeq(_)
SumSeq(s) == IF s = <<>> THEN 0 ELSE Head(s) + SumSeq(Tail(s))

CeilDiv(a, b) == (a + b - 1) \div b

Min(a, b) == IF a < b THEN a ELSE b

Width(d) == dev[d].resolution.x
Height(d) == dev[d].resolution.y

\* an asynchronous clear of device d was started on the idle device without
\* allocation failure or bus error, and since then only completions of the
\* transfers it dispatched were delivered
ClearOf(d) == clr.on /\ clr.d = d

\* the panel lies within the controller's native range and the bus mode
\* names a bus
InNativeRange(d) ==
    /\ Width(d) <= NativeX(dev[d].ctrl)
    /\ Height(d) <= NativeY(dev[d].ctrl)
    /\ dev[d].bus_mode \in {ST7789_BUS_MODE_SPI, ST7789_BUS_MODE_8080}

\* every dispatched chunk is a whole number of scanlines and fits the buffer
ChunksAreScanlines(d) ==
    \A i \in 1..Len(hal.disp[d]) :
        /\ hal.disp[d][i] % Width(d) = 0
        /\ hal.disp[d][i] <= cache_line_count * Width(d)

\* the pixel count of the i-th chunk of a clear of h lines of width wd
ExpectedChunk(i, wd, h) ==
    IF i <= h \div cache_line_count THEN cache_line_count * wd
    ELSE (h % cache_line_count) * wd

Called(op) == last.op = op
Now(d) == dev[d]
Before == last.pre

\* the call entry of a primitive in the log of the last API call
Call(p, a, ok) == [p |-> p, a |-> a, ok |-> ok]

\* a primitive call of the last API call failed, or its handler did
PrimFailed == \E i \in 1..Len(hal.log) : ~hal.log[i].ok
HandlerFailed == last.hcalled /\ FAILED(last.hret)
BusError == PrimFailed \/ HandlerFailed

\* the last primitive the last API call called was bus_release (where the
\* device has a bus lock at all)
Released(d) ==
    dev[d].has_lock =>
        /\ Len(hal.log) > 0
        /\ hal.log[Len(hal.log)].p = "bus_release"

\* the one primitive call of the last API call was a bus_aquire that failed
AcquireRefused == hal.log = <<Call("bus_aquire", <<>>, FALSE)>>

\* serial bus: the two GPIO calls that end a streaming session
EndSequence ==
    <<Call("gpio_dc_set", 1, TRUE), Call("gpio_cs_set", 1, TRUE)>>

\* what a session issues on the lines before its first write-start
Preamble(d) ==
    IF dev[d].bus_mode = ST7789_BUS_MODE_SPI
    THEN << <<"gpio_dc_set", 0>>, <<"gpio_cs_set", 0>>,
            <<"spi.write", <<1, "cmd", RAMWR>> >>,
            <<"gpio_cs_set", 1>>, <<"gpio_dc_set", 1>>,
            <<"gpio_dc_set", 1>>, <<"gpio_cs_set", 0>> >>
    ELSE << <<"bus80.command_write",
              <<2, "cmd", IF dev[d].host_is_big_endian THEN RAMWR
                          ELSE 256 * RAMWR>> >>,
            <<"bus80.data_write", <<0, "args", <<>> >> >> >>

IsRamwr(e) ==
    /\ e[1] \in {"spi.write", "bus80.command_write"}
    /\ e[2][2] = "cmd"
    /\ e[2][3] \in {RAMWR, 256 * RAMWR}

\* no memory write command and no data-mode/chip-select assertion in events
NoPreambleIn(events) ==
    /\ \A i \in 1..Len(events) : ~IsRamwr(events[i])
    /\ \A i \in 1..(Len(events) - 1) :
         ~(events[i] = <<"gpio_dc_set", 1>> /\ events[i + 1] = <<"gpio_cs_set", 0>>)

(***************************************************************************)
(* Properties.                                                             *)
(***************************************************************************)
\* C1 as stated: for every panel width and height, an undisturbed clear of
\* an idle device whose chunks are all answered has dispatched chunks that
\* sum to W*H pixels, each a whole number of scanlines of at most 5*W
\* pixels.
C1_ClearPaintsEveryPanel ==
    \A d \in Devs :
        ClearOf(d) =>
            /\ ChunksAreScanlines(d)
            /\ hal.inflight[d] = 0 =>
                   SumSeq(hal.disp[d]) = Width(d) * Height(d)

\* C1 amended: the same, for the panels within the controller's native
\* range (ST7789 240 x 320, ST7735 162 x 162) on a serial or parallel bus;
\* for a larger panel set_window rejects the full-screen window and nothing
\* is dispatched.
C1_ClearPaintsNativePanel ==
    \A d \in Devs :
        (ClearOf(d) /\ InNativeRange(d)) =>
            /\ ChunksAreScanlines(d)
            /\ hal.inflight[d] = 0 =>
                   SumSeq(hal.disp[d]) = Width(d) * Height(d)

\* C1 witness: a clear of a 3 x 13 panel has completed in three chunks
C1_Witness ==
    \E d \in Devs :
        /\ ClearOf(d) /\ InNativeRange(d)
        /\ Height(d) = 13 /\ Len(hal.disp[d]) = 3
        /\ hal.inflight[d] = 0
        /\ SumSeq(hal.disp[d]) = Width(d) * Height(d)

\* C2: a clear of H lines dispatches, in order, floor(H/5) chunks of 5
\* lines and then one of H mod 5 lines if that is not zero; the device is
\* back in Idle exactly when ceil(H/5) completions were delivered, and the
\* pixel buffer and the argument block are live until the last of them and
\* freed (once) by it.
C2_ClearChunkSchedule ==
    \A d \in Devs :
        (ClearOf(d) /\ clr.ret = ALL_OK) =>
            LET n == CeilDiv(Height(d), cache_line_count)
            IN  /\ clr.notifies <= n
                /\ Len(hal.disp[d]) = Min(clr.notifies + 1, n)
                /\ \A i \in 1..Len(hal.disp[d]) :
                       hal.disp[d][i] = ExpectedChunk(i, Width(d), Height(d))
                /\ (Now(d).async_state = ST7789_ASYNC_STATE_IDLE)
                       <=> (clr.notifies = n)
                /\ \A b \in {clr.pbuf, clr.args} :
                       /\ heap[b].live <=> (clr.notifies < n)
                       /\ heap[b].frees = (IF clr.notifies < n THEN 0 ELSE 1)

\* C2 witness: H = 13, the third completion has just freed both blocks
C2_Witness ==
    \E d \in Devs :
        /\ ClearOf(d) /\ clr.ret = ALL_OK
        /\ Height(d) = 13 /\ clr.notifies = 3
        /\ hal.disp[d] = <<5 * Width(d), 5 * Width(d), 3 * Width(d)>>
        /\ Called("notify")
        /\ Now(d).async_state = ST7789_ASYNC_STATE_IDLE
        /\ ~heap[clr.pbuf].live /\ ~heap[clr.args].live

\* C3: set_buffer with a non-null buffer succeeds from Idle, ending in
\* BufferLoaded, and from Transferring, ending in BufferReloaded, and the
\* device holds the given pointer and pixel count.
C3_SetBufferStages ==
    (/\ Called("set_buffer") /\ last.arg.buf # NULL
     /\ Before.async_state \in {ST7789_ASYNC_STATE_IDLE,
                                ST7789_ASYNC_STATE_TRANSFERING})
    => /\ last.ret = ALL_OK
       /\ Now(last.d).async_state =
              (IF Before.async_state = ST7789_ASYNC_STATE_IDLE
               THEN ST7789_ASYNC_STATE_BUFFER_LOADED
               ELSE ST7789_ASYNC_STATE_BUFFER_RELOADED)
       /\ Now(last.d).gram_tx_buf = last.arg.buf
       /\ Now(last.d).gram_tx_buf_size = last.arg.size

\* C3 witness: a buffer was staged while a transfer was under way
C3_Witness ==
    /\ Called("set_buffer") /\ last.arg.buf # NULL /\ last.arg.size # 0
    /\ Before.async_state = ST7789_ASYNC_STATE_TRANSFERING
    /\ Before.gram_tx_buf_size # last.arg.size
    /\ Now(last.d).async_state = ST7789_ASYNC_STATE_BUFFER_RELOADED

C5_StartStreamWhileTransferring ==
    (Called("start_stream")
     /\ Before.async_state = ST7789_ASYNC_STATE_TRANSFERING)
    => /\ last.ret = E_INVALID_OPERATION
       /\ Now(last.d).async_state = ST7789_ASYNC_STATE_TRANSFERING
       /\ Now(last.d).handler = Before.handler
       /\ Now(last.d).handler_params = Before.handler_params
       /\ hal.log = <<>>

\* C5 witness: the rejected call named another handler than the registered
C5_Witness ==
    /\ Called("start_stream")
    /\ Before.async_state = ST7789_ASYNC_STATE_TRANSFERING
    /\ last.arg.handler # Before.handler
    /\ last.ret = E_INVALID_OPERATION

\* C6: start_stream in Idle returns InvalidOperation, leaves the state Idle
\* and calls no bus primitive, also when a finished session left its
\* buffer pointer in the device.
C6_StartStreamWithoutBuffer ==
    (Called("start_stream") /\ Before.async_state = ST7789_ASYNC_STATE_IDLE)
    => /\ last.ret = E_INVALID_OPERATION
       /\ Now(last.d).async_state = ST7789_ASYNC_STATE_IDLE
       /\ hal.log = <<>>

\* C6 witness: start_stream on a device idle again after a finished session
C6_Witness ==
    /\ Called("start_stream")
    /\ Before.async_state = ST7789_ASYNC_STATE_IDLE
    /\ Before.gram_tx_buf # NULL
    /\ sess[last.d].nws >= 1 /\ ~sess[last.d].open
    /\ last.ret = E_INVALID_OPERATION

\* the last call was a completion_notify that ran in Transferring and whose
\* handler (or the absence of one) left the staged size at zero
NotifiedLastChunk ==
    /\ Called("notify")
    /\ Before.async_state = ST7789_ASYNC_STATE_TRANSFERING
    /\ Now(last.d).gram_tx_buf_size = 0

\* the session of device d was ended as the claim says: on the serial bus
\* by the ending sequence, emitted once in the session and leaving both
\* lines high; on the parallel bus without a bus primitive
EndedOnce(d) ==
    /\ Now(d).async_state = ST7789_ASYNC_STATE_IDLE
    /\ Now(d).bus_mode = ST7789_BUS_MODE_SPI =>
           /\ hal.log = EndSequence
           /\ sess[d].ends = 1
           /\ line[d] = [cs |-> 1, dc |-> 1]
    /\ Now(d).bus_mode = ST7789_BUS_MODE_8080 => hal.log = <<>>

EngineCallFailed ==
    /\ Called("start_stream") \/ Called("notify")
    /\ BusError

\* C8 as stated: a failing bus acquire, memory write command, GPIO call,
\* write-start or completion handler in start_stream or completion_notify
\* leaves the state Idle and the bus released.
C8_BusErrorResetsEngine ==
    EngineCallFailed =>
        /\ Now(last.d).async_state = ST7789_ASYNC_STATE_IDLE
        /\ Released(last.d)

\* C8 amended: a failure after start_stream's bus acquire succeeded, and
\* every failure in completion_notify, leaves the state Idle and the bus
\* released; a failing bus acquire of start_stream returns at once, with
\* the state still BufferLoaded or BufferReloaded, the new handler
\* registered and no release.
C8_BusErrorAfterAcquireResetsEngine ==
    EngineCallFailed =>
        IF Called("start_stream") /\ AcquireRefused
        THEN /\ Now(last.d).async_state = Before.async_state
             /\ Now(last.d).async_state \in {ST7789_ASYNC_STATE_BUFFER_LOADED,
                                            ST7789_ASYNC_STATE_BUFFER_RELOADED}
             /\ Now(last.d).handler = last.arg.handler
        ELSE /\ Now(last.d).async_state = ST7789_ASYNC_STATE_IDLE
             /\ Released(last.d)

\* C8 witness: the write-start primitive failed in start_stream on a device
\* with a bus lock
C8_Witness ==
    /\ Called("start_stream") /\ PrimFailed
    /\ Now(last.d).has_lock
    /\ \E i \in 1..Len(hal.log) :
           hal.log[i].p = "spi.write_async_start" /\ ~hal.log[i].ok
    /\ Now(last.d).async_state = ST7789_ASYNC_STATE_IDLE
    /\ Released(last.d)

\* the primitives start_stream calls when it does not open a session
IsDispatchOnly(c) ==
    c.p \in {"bus_aquire", "bus_release", "spi.write_async_start",
             "bus80.data_write_async_start"}

\* C9: in a session that dispatched at least one chunk the memory write
\* command and (serial bus) the data-mode/chip-select assertion were issued
\* once, before the first write-start, and not again after it; a
\* start_stream entered in BufferReloaded issues neither.
C9_PreambleOncePerSession ==
    /\ \A d \in Devs :
           sess[d].nws >= 1 =>
               /\ sess[d].pre = Preamble(d)
               /\ NoPreambleIn(sess[d].post)
    /\ (Called("start_stream")
        /\ Before.async_state = ST7789_ASYNC_STATE_BUFFER_RELOADED)
       => \A i \in 1..Len(hal.log) : IsDispatchOnly(hal.log[i])

\* C9 witness: the completion callback has chained the second chunk of a
\* session on the serial bus
C9_Witness ==
    /\ Called("notify") /\ last.hcalled /\ ~BusError
    /\ Now(last.d).bus_mode = ST7789_BUS_MODE_SPI
    /\ sess[last.d].open /\ sess[last.d].nws = 2
    /\ sess[last.d].pre = Preamble(last.d)
    /\ \E i \in 1..Len(hal.log) : hal.log[i].p = "spi.write_async_start"

\* C10: wait_complete returns success when the state is Idle at the call;
\* it returns Timeout only at a poll at which more ticks than the timeout
\* have elapsed since the entry, and a poll in a non-Idle state at which
\* more ticks than the timeout have elapsed returns Timeout - also when the
\* 32-bit tick counter has wrapped since the entry.
C10_WaitTimeout ==
    /\ (wt.pc = "done" /\ wt.idle_at_entry) => wt.ret = ALL_OK
    /\ (wt.pc = "done" /\ wt.ret = E_HARDWARE_TIMEOUT) =>
           /\ wt.polled
           /\ Gt32(Nat32(wt.seen), wt.timeout)
    /\ (wt.pc = "test" /\ wt.polled) => ~Gt32(Nat32(wt.seen), wt.timeout)

\* C10 witness: Timeout returned after the tick counter wrapped to a value
\* below the one read at entry
C10_Witness ==
    /\ wt.pc = "done" /\ wt.ret = E_HARDWARE_TIMEOUT
    /\ Gt32(wt.ms, wt.tick)
    /\ wt.timeout = Nat32(1)
    /\ wt.seen = 2

(***************************************************************************)
(* Properties of the command sequencer and of display_set_window.          *)
(***************************************************************************)
\* the number of calls of primitive p by the last API call
CountOf(p) == Cardinality({i \in 1..Len(hal.log) : hal.log[i].p = p})

IsBusLock(e) == e.p \in {"bus_aquire", "bus_release"}
IsBusPrim(e) == ~IsBusLock(e)

\* the calls of write and GPIO primitives of the last API call, in order
BusPrims == SelectSeq(hal.log, IsBusPrim)

\* C11: a write_command call whose bus_aquire succeeded calls bus_release
\* exactly once, as the last thing before it returns, whether it succeeds
\* or a GPIO call or a write fails or the bus mode is unsupported; a call
\* whose bus_aquire fails calls no other primitive, bus_release included.
C11_WriteCommandReleasesOnce ==
    \A d \in Devs :
        (Called("write_command") /\ last.d = d /\ Now(d).has_lock) =>
            /\ Len(hal.log) >= 1
            /\ hal.log[1].p = "bus_aquire"
            /\ CountOf("bus_aquire") = 1
            /\ IF hal.log[1].ok
               THEN /\ CountOf("bus_release") = 1
                    /\ hal.log[Len(hal.log)].p = "bus_release"
               ELSE Len(hal.log) = 1

\* C11 witness: on the serial bus the write of the command byte failed and
\* the call released the bus before returning the error
C11_Witness ==
    \E d \in Devs :
        /\ Called("write_command") /\ last.d = d /\ Now(d).has_lock
        /\ Now(d).bus_mode = ST7789_BUS_MODE_SPI
        /\ Len(hal.log) = 5
        /\ hal.log[4].p = "spi.write" /\ ~hal.log[4].ok
        /\ hal.log[5] = Call("bus_release", <<>>, TRUE)
        /\ last.ret = E_HARDWARE_ERROR

\* the primitive calls the claim lists for a command with arguments, and
\* for one without
SerialCommandOrder(arg) ==
    IF arg.size > 0
    THEN << Call("gpio_dc_set", 0, TRUE), Call("gpio_cs_set", 0, TRUE),
            Call("spi.write", <<1, "cmd", arg.command>>, TRUE),
            Call("gpio_dc_set", 1, TRUE),
            Call("spi.write", <<arg.size, "args", arg.pargs>>, TRUE),
            Call("gpio_cs_set", 1, TRUE) >>
    ELSE << Call("gpio_dc_set", 0, TRUE), Call("gpio_cs_set", 0, TRUE),
            Call("spi.write", <<1, "cmd", arg.command>>, TRUE),
            Call("gpio_cs_set", 1, TRUE), Call("gpio_dc_set", 1, TRUE) >>

\* C13: on the serial bus a successful write_command calls, in this order,
\* dc low, cs low, write of the 1 command byte, then with arguments dc
\* high, write of the argument bytes, cs high, and without arguments cs
\* high, dc high; it leaves chip-select deasserted and data/command high.
C13_SerialCommandOrder ==
    \A d \in Devs :
        (/\ Called("write_command") /\ last.d = d
         /\ Now(d).bus_mode = ST7789_BUS_MODE_SPI
         /\ last.ret = ALL_OK) =>
            /\ BusPrims = SerialCommandOrder(last.arg)
            /\ line[d] = [cs |-> 1, dc |-> 1]

\* C13 witness: a command without arguments succeeded on the serial bus,
\* chip-select raised before data/command
C13_Witness ==
    \E d \in Devs :
        /\ Called("write_command") /\ last.d = d
        /\ Now(d).bus_mode = ST7789_BUS_MODE_SPI
        /\ last.ret = ALL_OK /\ last.arg.size = 0
        /\ Len(BusPrims) = 5
        /\ BusPrims[4].p = "gpio_cs_set" /\ BusPrims[5].p = "gpio_dc_set"

UnsupportedMode(d) ==
    Now(d).bus_mode \notin {ST7789_BUS_MODE_SPI, ST7789_BUS_MODE_8080}

\* C14 as stated: write_command on a device whose bus mode is neither
\* serial nor parallel fails with E_INVALID_OPERATION and calls no write
\* and no GPIO primitive.
C14_UnsupportedModeInvalidOperation ==
    \A d \in Devs :
        (Called("write_command") /\ last.d = d /\ UnsupportedMode(d)) =>
            /\ last.ret = E_INVALID_OPERATION
            /\ BusPrims = <<>>

\* C14 amended: write_command on such a device fails and calls no write and
\* no GPIO primitive; the error code is E_INVALID_ARGUMENT unless the
\* bus_aquire or bus_release it calls fails itself.
C14_UnsupportedModeInvalidArgument ==
    \A d \in Devs :
        (Called("write_command") /\ last.d = d /\ UnsupportedMode(d)) =>
            /\ FAILED(last.ret)
            /\ ~PrimFailed => last.ret = E_INVALID_ARGUMENT
            /\ BusPrims = <<>>

\* C14 witness: the call took and released the bus and failed with
\* E_INVALID_ARGUMENT
C14_Witness ==
    \E d \in Devs :
        /\ Called("write_command") /\ last.d = d /\ UnsupportedMode(d)
        /\ hal.log = <<Call("bus_aquire", <<>>, TRUE),
                       Call("bus_release", <<>>, TRUE)>>
        /\ last.ret = E_INVALID_ARGUMENT

\* the native range of the claim: ST7789 rows 0..320 and columns 0..240,
\* ST7735 0..162 for both
RectInNativeRange(ctrl, rect) ==
    IF ctrl = "st7789"
    THEN /\ rect.top \in 0..320 /\ rect.bottom \in 0..320
         /\ rect.left \in 0..240 /\ rect.right \in 0..240
    ELSE /\ rect.top \in 0..162 /\ rect.bottom \in 0..162
         /\ rect.left \in 0..162 /\ rect.right \in 0..162

\* C15: display_set_window with a bound outside the controller's native
\* range fails with E_INVALID_ARGUMENT and calls no primitive at all.
C15_WindowOutOfRangeRejected ==
    \A d \in Devs :
        (/\ Called("set_window") /\ last.d = d
         /\ ~RectInNativeRange(Now(d).ctrl, last.arg.rect)) =>
            /\ last.ret = E_INVALID_ARGUMENT
            /\ hal.log = <<>>

\* C15 witness: the rectangle (0, 0, 321, 240) was rejected by an ST7789
C15_Witness ==
    \E d \in Devs :
        /\ Called("set_window") /\ last.d = d
        /\ Now(d).ctrl = "st7789"
        /\ last.arg.rect = [top |-> 0, left |-> 0, bottom |-> 321,
                            right |-> 240]
        /\ last.ret = E_INVALID_ARGUMENT
        /\ hal.log = <<>>

(***************************************************************************)
(* Properties of the pixel path.                                           *)
(***************************************************************************)
\* the bus_aquire calls of the last API call that succeeded
AcquiresOk ==
    Cardinality({i \in 1..Len(hal.log) :
                    hal.log[i].p = "bus_aquire" /\ hal.log[i].ok})

\* which bus_aquire of the last API call is the operation's own: the one of
\* write_pixel_data follows that of the RAMWR command, the one of read_gram
\* those of COLMOD and RAMRD unless it continues a read, the one of
\* stream_start is the first
OwnAcquire ==
    IF last.op = "append_gram" THEN 2
    ELSE IF last.op = "read_gram" THEN (IF last.arg.cont THEN 1 ELSE 3)
    ELSE 1

\* C12: when append_gram (write_pixel_data), read_gram or start_stream
\* fails after the operation's own bus_aquire succeeded, the unsupported
\* bus mode included, bus_release is the last primitive it has called.
C12_FailureAfterAcquireReleases ==
    \A d \in Devs :
        (/\ last.op \in {"append_gram", "read_gram", "start_stream"}
         /\ last.d = d /\ Now(d).has_lock
         /\ ~app.crashed
         /\ FAILED(last.ret)
         /\ AcquiresOk >= OwnAcquire) =>
            hal.log[Len(hal.log)].p = "bus_release"

\* what the caller finds in the first n entries of the buffer read_gram
\* has filled
ReadBack(be, n) ==
    [i \in 1..n |-> Value16(be, hal.rbuf[2 * i - 1], hal.rbuf[2 * i])]

\* C19: on the parallel bus, append_gram of N pixels followed by read_gram
\* of N pixels (not continuing a read, no primitive failing) succeeds,
\* stores no more than N entries and leaves the N values written in the
\* caller's buffer, with host_is_big_endian set and cleared.
C19_RoundTrip ==
    \A d \in Devs :
        (/\ Called("read_gram") /\ last.d = d
         /\ Now(d).bus_mode = ST7789_BUS_MODE_8080
         /\ last.arg.buf # NULL /\ ~last.arg.cont
         /\ last.arg.appended # <<>>
         /\ last.arg.size = Len(last.arg.appended)
         /\ last.fail = 0) =>
            /\ ~app.crashed
            /\ last.ret = ALL_OK
            /\ Len(hal.rbuf) = 2 * last.arg.size
            /\ ReadBack(Now(d).host_is_big_endian, last.arg.size)
                   = last.arg.appended

(***************************************************************************)
(* Properties of the failure paths of display_clear_gram_async and of the  *)
(* staged size.                                                            *)
(***************************************************************************)
\* a step is a call of display_clear_gram_async by device d in which malloc
\* failed for the pixel buffer, for the argument block or for both
ClearAllocFailure(d) ==
    /\ app'.clears = app.clears + 1
    /\ last'.op = "clear_async" /\ last'.d = d
    /\ clr'.pbuf = NULL \/ clr'.args = NULL

\* C16: a call of clear_async in which an allocation fails (the pixel
\* buffer, the argument block, or both) returns E_MEMORY_ALLOC_FAILED,
\* calls no primitive and leaves the async state and the static clear
\* configuration as they were.
C16_AllocFailureReturnsError ==
    [][\A d \in Devs :
          ClearAllocFailure(d) =>
              /\ ~app'.crashed
              /\ last'.ret = E_MEMORY_ALLOC_FAILED
              /\ hal'.log = <<>>
              /\ dev'[d].async_state = dev[d].async_state
              /\ clear_config' = clear_config]_vars

\* C17: clear_async returns a failure when a primitive of its bootstrap
\* (set_window, the first set_buffer / start_stream) fails, and returns
\* ALL_OK only when the first chunk has been dispatched or the panel has no
\* line to paint.
C17_BootstrapFailurePropagates ==
    \A d \in Devs :
        (Called("clear_async") /\ last.d = d /\ ~app.crashed) =>
            /\ PrimFailed => FAILED(last.ret)
            /\ last.ret = ALL_OK =>
                   \/ Len(hal.disp[d]) >= 1
                   \/ Height(d) = 0

\* C18: between calls, the staged buffer size of a device in state
\* Transferring is not zero.
C18_StagedSizeWhileTransferring ==
    \A d \in Devs :
        Now(d).async_state = ST7789_ASYNC_STATE_TRANSFERING =>
            Now(d).gram_tx_buf_size # 0

(***************************************************************************)
(* Properties of two devices sharing the static clear configuration.       *)
(***************************************************************************)
\* the scanlines device d has dispatched since its last clear_async
LinesDispatched(d) == SumSeq(hal.disp[d]) \div Width(d)

\* the last API call was a clear_async of the idle device d that allocated
\* its two blocks and in which no primitive failed
CleanClearBy(d) ==
    /\ Called("clear_async") /\ last.d = d
    /\ Before.async_state = ST7789_ASYNC_STATE_IDLE
    /\ clr.args # NULL /\ last.fail = 0
    /\ last.ret = ALL_OK

\* device o is in the middle of a clear
ClearInProgress(o) ==
    /\ Now(o).async_state = ST7789_ASYNC_STATE_TRANSFERING
    /\ Now(o).handler = "clear"

\* C20: the remaining-lines counter is one for all devices of a controller
\* type: after clear_async of a device it holds that device's height less
\* its first chunk, also when another device's clear is in progress, whose
\* remaining count is thereby lost; the witness is an interleaving of the
\* completions after which a device has dispatched a number of scanlines
\* that is not its height.
C20_SharedClearCounter ==
    \A d \in DOMAIN dev :
        CleanClearBy(d) =>
            /\ clear_config.lines_left
                   = Height(d) - Min(Height(d), cache_line_count)
            /\ \A o \in DOMAIN dev \ {d} :
                   (ClearInProgress(o)
                    /\ Height(o) - LinesDispatched(o)
                           # Height(d) - LinesDispatched(d)) =>
                       clear_config.lines_left
                           # Height(o) - LinesDispatched(o)

\* C20 witness: both devices were cleared without allocation failure or
\* bus error, every transfer was answered, both are idle again, and a
\* device has dispatched fewer scanlines than its panel has
C20_Witness ==
    /\ DOMAIN dev = {1, 2}
    /\ app.faults = 0 /\ ~app.crashed
    /\ Len(heap) = 4
    /\ \A d \in DOMAIN dev :
           /\ Now(d).async_state = ST7789_ASYNC_STATE_IDLE
           /\ hal.inflight[d] = 0
           /\ hal.disp[d] # <<>>
    /\ \E d \in DOMAIN dev : LinesDispatched(d) # Height(d)

(***************************************************************************)
(* Properties of the termination of the bulk clear.                        *)
(***************************************************************************)
\* the clear of device d is over: the device is idle, no line is left and
\* the pixel buffer and the argument block are freed
ClearDone(d) ==
    /\ Now(d).async_state = ST7789_ASYNC_STATE_IDLE
    /\ clear_config.lines_left = 0
    /\ ~heap[clr.pbuf].live /\ ~heap[clr.args].live

\* a step in which a chunk of device d is handed to the write-start
\* primitive
Dispatches(d) == Len(hal'.disp[d]) > Len(hal.disp[d])

\* the remaining-lines counter before the chunk of the step was taken from
\* it: the panel's height in the step of clear_async, which sets it
LinesBefore(d) ==
    IF last'.op = "clear_async" THEN Height(d) ELSE clear_config.lines_left

\* C21: with every dispatched transfer answered by a completion_notify in
\* the end and no bus primitive failing, a clear_async started on an idle
\* device on a serial or parallel bus (both blocks allocated) leads to the device idle again, the
\* remaining-lines counter zero and both blocks freed, for every panel
\* width >= 1 and height >= 0; and every step that dispatches a chunk of
\* the clear leaves the counter smaller than it was.
C21_ClearTerminates ==
    /\ \A d \in Devs :
           (ClearOf(d) /\ ~UnsupportedMode(d))
               ~> (~ClearOf(d) \/ ClearDone(d))
    /\ [][\A d \in Devs :
             (clr'.on /\ clr'.d = d /\ Dispatches(d)) =>
                 clear_config'.lines_left < LinesBefore(d)]_vars

(***************************************************************************)
(* Properties of the engine's protocol: transfers in flight, completions.  *)
(***************************************************************************)
\* a transfer of device d was dispatched and its completion has not been
\* delivered
Outstanding(d) == hal.inflight[d] > 0

\* the step is a call of a public operation other than
\* async_completed_notify
OtherCall == last'.op # "notify"

\* C22: while a dispatched transfer is outstanding and the engine is not
\* idle, no call of another public operation (set_buffer, start_stream,
\* clear_async) leaves the async state Idle: only completion_notify ends a
\* transfer in flight.
C22_OnlyNotifyEndsTransfer ==
    [][\A d \in Devs :
          (/\ Outstanding(d)
           /\ dev[d].async_state # ST7789_ASYNC_STATE_IDLE
           /\ OtherCall) =>
              dev'[d].async_state # ST7789_ASYNC_STATE_IDLE]_vars

\* the last call was a completion_notify that found the engine Transferring
NotifiedInTransfer ==
    Called("notify") /\ Before.async_state = ST7789_ASYNC_STATE_TRANSFERING

\* C23: completion_notify in Transferring invokes the completion handler
\* when one is registered; at the handler's entry the async state is
\* Transferring and the staged size is zero, and the handler and the
\* opaque argument it is called with are those given to the last
\* start_stream call that passed its state checks.
C23_HandlerEntry ==
    NotifiedInTransfer =>
        /\ last.hcalled <=> Before.handler # "NULL"
        /\ last.hcalled =>
               /\ last.hentry.state = ST7789_ASYNC_STATE_TRANSFERING
               /\ last.hentry.size = 0
               /\ last.hentry.handler = last.hentry.reg.handler
               /\ last.hentry.params = last.hentry.reg.params

\* C23 witness: the handler registered by the session's second
\* start_stream was called with its argument, the staged size of 4 pixels
\* reset to zero before
C23_Witness ==
    /\ NotifiedInTransfer /\ last.hcalled
    /\ Before.gram_tx_buf_size = UserChunk
    /\ sess[last.d].nws = 2
    /\ last.hentry.handler = "h_fail"
    /\ last.hentry.params = UserArg("h_fail")
    /\ last.hentry.size = 0

\* the last call was a completion_notify in Transferring whose handler
\* staged a buffer of UserChunk pixels and did not call start_stream
HandlerStagedOnly ==
    /\ NotifiedInTransfer
    /\ Before.handler = "h_stage" /\ last.hcalled

\* the one write-start call that dispatches the buffer staged before the
\* call, on the bus of device d
DispatchOf(d, size, buf) ==
    <<Call(IF Now(d).bus_mode = ST7789_BUS_MODE_SPI
           THEN "spi.write_async_start"
           ELSE "bus80.data_write_async_start", <<size, buf>>, TRUE)>>

\* C24: when the handler stages a non-empty buffer and does not call
\* start_stream, completion_notify returns success, leaves the async state
\* BufferReloaded with the buffer staged, and emits no ending sequence (it
\* calls no primitive); a start_stream in BufferReloaded in which no
\* primitive fails dispatches the staged buffer with the write-start
\* primitive alone: no memory write command, no GPIO call.
C24_StagedByHandler ==
    /\ HandlerStagedOnly =>
           /\ last.ret = ALL_OK
           /\ Now(last.d).async_state = ST7789_ASYNC_STATE_BUFFER_RELOADED
           /\ Now(last.d).gram_tx_buf_size = UserChunk
           /\ Now(last.d).gram_tx_buf = UserBuf
           /\ hal.log = <<>>
           /\ sess[last.d].open /\ sess[last.d].ends = 0
    /\ (/\ Called("start_stream")
        /\ Before.async_state = ST7789_ASYNC_STATE_BUFFER_RELOADED
        /\ ~PrimFailed) =>
           /\ last.ret = ALL_OK
           /\ Now(last.d).async_state = ST7789_ASYNC_STATE_TRANSFERING
           /\ BusPrims = DispatchOf(last.d, Before.gram_tx_buf_size,
                                    Before.gram_tx_buf)

\* C24 witness: the start_stream that follows such a completion has
\* dispatched the buffer the handler staged as the session's second chunk,
\* no transfer being outstanding before it
C24_Witness ==
    /\ Called("start_stream") /\ last.ret = ALL_OK
    /\ Before.async_state = ST7789_ASYNC_STATE_BUFFER_RELOADED
    /\ Before.handler = "h_stage"
    /\ Before.gram_tx_buf_size = UserChunk
    /\ app.calls = 3
    /\ hal.inflight[last.d] = 1
    /\ sess[last.d].nws = 2
    /\ hal.disp[last.d] = <<UserChunk, UserChunk>>

\* C25: completion_notify called in Idle, BufferLoaded or BufferReloaded
\* returns E_INVALID_OPERATION, invokes no handler, calls no primitive and
\* leaves the device (async state, staged buffer and size, registered
\* handler) as it was.
C25_NotifyOutsideTransfer ==
    (Called("notify")
     /\ Before.async_state # ST7789_ASYNC_STATE_TRANSFERING) =>
        /\ last.ret = E_INVALID_OPERATION
        /\ ~last.hcalled
        /\ hal.log = <<>>
        /\ Now(last.d) = Before

\* C25 witness: a completion was refused in BufferReloaded, a handler
\* registered and a buffer of 4 pixels staged
C25_Witness ==
    /\ Called("notify")
    /\ Before.async_state = ST7789_ASYNC_STATE_BUFFER_RELOADED
    /\ Before.handler # "NULL"
    /\ Before.gram_tx_buf_size = UserChunk
    /\ last.ret = E_INVALID_OPERATION
    /\ Now(last.d).gram_tx_buf_size = UserChunk

\* C26: over every sequence of set_buffer, start_stream and
\* completion_notify calls the write-start primitive is not called while a
\* dispatched transfer is unanswered: at most one transfer of a device is
\* outstanding.
C26_OneTransferOutstanding ==
    \A d \in Devs : hal.inflight[d] <= 1

\* a step that delivers the completion of an outstanding transfer of
\* device d, no primitive failing in it
CompletionDelivered(d) ==
    /\ Outstanding(d)
    /\ hal'.inflight[d] = hal.inflight[d] - 1
    /\ last'.op = "notify" /\ last'.fail = 0

\* C27: the completion_notify that reports the completion of an
\* outstanding transfer returns success and invokes the registered handler
\* (when there is one), also when set_buffer has staged the next buffer in
\* the meantime and the state is BufferReloaded.
C27_CompletionAccepted ==
    [][\A d \in Devs :
          (/\ CompletionDelivered(d)
           /\ dev[d].async_state \in {ST7789_ASYNC_STATE_TRANSFERING,
                                      ST7789_ASYNC_STATE_BUFFER_RELOADED}
           /\ dev[d].handler # "h_fail") =>
              /\ last'.ret = ALL_OK
              /\ last'.hcalled <=> dev[d].handler # "NULL"]_vars

(***************************************************************************)
(* Properties of the resources of a session: the bus lock, the heap.       *)
(***************************************************************************)
\* the clear of device d has dispatched at least one chunk, every chunk
\* was answered without error and the device is idle again
ClearSessionOver(d) ==
    /\ ClearOf(d) /\ clr.ret = ALL_OK
    /\ Len(hal.disp[d]) >= 1
    /\ hal.inflight[d] = 0
    /\ Now(d).async_state = ST7789_ASYNC_STATE_IDLE

\* C28: when the device is idle again after a streaming session of n >= 1
\* chunks that completed without error (a full clear_async), the driver
\* has called bus_release as often as bus_aquire: the bus is not held.
C28_BusLockBalanced ==
    \A d \in Devs : ClearSessionOver(d) => hal.held = 0

\* clear_async of device d has allocated its two blocks and the clear has
\* ended, by its completion or by an error: the device is idle and no
\* transfer is outstanding
ClearEnded(d) ==
    /\ clr.d = d /\ clr.pbuf # NULL /\ clr.args # NULL
    /\ ~app.crashed
    /\ hal.inflight[d] = 0
    /\ Now(d).async_state = ST7789_ASYNC_STATE_IDLE

\* C29: the pixel buffer and the argument block of a clear are freed
\* exactly once however the clear ends (completion, failing set_window,
\* failing bootstrap, error in the handler), no block is freed twice, and
\* while a chunk of the clear is in flight the buffer handed to the
\* write-start primitive and the handler's argument block are live.
C29_ClearBlocksFreedOnce ==
    /\ \A b \in DOMAIN heap : heap[b].frees <= 1
    /\ \A d \in Devs :
           ClearEnded(d) =>
               /\ heap[clr.pbuf].frees = 1
               /\ heap[clr.args].frees = 1
    /\ \A d \in Devs :
           (Outstanding(d) /\ Now(d).handler = "clear") =>
               /\ heap[Now(d).gram_tx_buf].live
               /\ heap[Now(d).handler_params].live

(***************************************************************************)
(* Properties of the clear on a blocking bus.                              *)
(***************************************************************************)
\* C30: on a blocking bus, whose write-start primitive calls
\* completion_notify before it returns, a clear_async of an idle device of
\* H >= 1 lines (no allocation or primitive failing) has dispatched W*H
\* pixels when it returns, leaves the device Idle, has freed both blocks
\* once, and has emitted the ending sequence of the serial bus exactly
\* once.
C30_BlockingBusClear ==
    \A d \in Devs :
        (/\ CleanClearBy(d) /\ hal.sync[d]
         /\ InNativeRange(d) /\ Height(d) >= 1) =>
            /\ SumSeq(hal.disp[d]) = Width(d) * Height(d)
            /\ hal.inflight[d] = 0
            /\ Now(d).async_state = ST7789_ASYNC_STATE_IDLE
            /\ heap[clr.pbuf].frees = 1 /\ heap[clr.args].frees = 1
            /\ Now(d).bus_mode = ST7789_BUS_MODE_SPI => sess[d].ends = 1

(***************************************************************************)
(* Properties of the bounds display_set_window sends.                      *)
(***************************************************************************)
IsArgsWrite(e) ==
    e.p \in {"spi.write", "bus80.data_write"} /\ e.a[2] = "args"

\* the argument blocks the last API call has written, in order: those of
\* CASET and RASET for display_set_window
ArgWrites == SelectSeq(hal.log, IsArgsWrite)

\* the 16-bit value the panel reads from a bound sent high byte first
WireBound(k, j) == U16ECV(ArgWrites[k].a[3][j])

\* begin <= end <= dimension - 1 for the k-th address command
BoundsOrdered(k, dimension) ==
    /\ WireBound(k, 1) <= WireBound(k, 2)
    /\ WireBound(k, 2) <= dimension - 1

\* C31: when display_set_window succeeds, the column command and the row
\* command it has sent each carry 16-bit bounds with begin <= end <=
\* dimension - 1, the dimension being the controller's native width or
\* height: no end coordinate has wrapped below zero and no start
\* coordinate equals the dimension.
C31_WindowBoundsOrdered ==
    \A d \in Devs :
        (Called("set_window") /\ last.d = d /\ last.ret = ALL_OK) =>
            /\ Len(ArgWrites) = 2
            /\ BoundsOrdered(1, NativeX(Now(d).ctrl))
            /\ BoundsOrdered(2, NativeY(Now(d).ctrl))


(***************************************************************************)
(* Properties of the chip-select line around write_command.               *)
(***************************************************************************)
\* the serial device d is selected: its chip-select line is driven low
Selected(d) == line[d].cs = 0

\* C32: on the serial bus, when write_command has taken the bus and
\* returns, with success or with a failure of a GPIO or write primitive in
\* mid-sequence, the chip-select line of the panel is deasserted: the bus
\* is never released with the panel still selected.
C32_ChipSelectRestored ==
    \A d \in Devs :
        (/\ Called("write_command") /\ last.d = d
         /\ Now(d).bus_mode = ST7789_BUS_MODE_SPI
         /\ ~AcquireRefused) => ~Selected(d)


(***************************************************************************)
(* Properties of the lines while a streaming session is in progress.       *)
(***************************************************************************)
\* the device was in a streaming session when the last API call was made
InSessionBefore ==
    Before.async_state \in {ST7789_ASYNC_STATE_TRANSFERING,
                            ST7789_ASYNC_STATE_BUFFER_RELOADED}

\* a call of the last API call that drove chip-select or data/command, or
\* wrote a command byte, and succeeded
TouchedLines(e) ==
    /\ e.ok
    /\ \/ e.p \in {"gpio_cs_set", "gpio_dc_set"}
       \/ e.p = "spi.write" /\ e.a[2] = "cmd"

\* C33: a public synchronous operation (here clear_async, which begins
\* with set_window) issued on the serial bus while a streaming session is
\* in progress (async state Transferring or BufferReloaded) sends no
\* command and drives neither chip-select nor data/command, so that
\* chip-select stays asserted and data/command stays high.
C33_SessionLinesUntouched ==
    \A d \in Devs :
        (/\ Called("clear_async") /\ last.d = d
         /\ Before.bus_mode = ST7789_BUS_MODE_SPI
         /\ InSessionBefore) =>
            /\ SelectSeq(hal.log, TouchedLines) = <<>>
            /\ Selected(d) /\ line[d].dc = 1


(***************************************************************************)
(* The synchronous clear, and the two clears on hosts of either byte       *)
(* order.                                                                  *)
(***************************************************************************)
\* for (i < npixels) write(2, &color);
ColorWrites(p, be, color, npixels) ==
    [i \in 1..npixels |-> <<p, <<2, "px", Bytes16(be, color)>> >>]

\* display_clear_gram after RAMWR: color is the local the code has
\* converted or not
clear_gram_body(w, d, color, npixels) ==
    IF w.dev[d].bus_mode = ST7789_BUS_MODE_SPI
    THEN RunPrims(w, d,
           << <<"gpio_dc_set", 1>>, <<"gpio_cs_set", 0>> >>
           \o ColorWrites("spi.write", w.dev[d].host_is_big_endian, color,
                          npixels)
           \o << <<"gpio_dc_set", 1>>, <<"gpio_cs_set", 1>> >>)
    ELSE IF w.dev[d].bus_mode = ST7789_BUS_MODE_8080
    THEN RunPrims(w, d, << <<"bus80.data_set", <<npixels, color>> >> >>)
    ELSE Return(w, E_INVALID_ARGUMENT)

st7789_display_clear_gram(w, d, color) ==
    OnOk(st7789_display_set_window(w, d,
           [top |-> 0, left |-> 0, bottom |-> w.dev[d].resolution.y,
            right |-> w.dev[d].resolution.x]),
         LAMBDA w1 :
           OnOk(st7789_write_command(w1, d, RAMWR, <<>>, 0), LAMBDA w2 :
             clear_gram_body(w2, d,
               IF w2.dev[d].host_is_big_endian THEN color
               ELSE U16ECV(color),
               w2.dev[d].resolution.x * w2.dev[d].resolution.y)))

\* the devices of the byte-order model: a panel the asynchronous clear
\* fills in one chunk and one it fills in two, on a serial bus with bus
\* lock
EndianConfigs ==
    [panel : {BasePanel, [ctrl |-> "st7789", x |-> 1, y |-> 6]},
     mode : {ST7789_BUS_MODE_SPI}, lock : {TRUE}]

InitEndian ==
    /\ \E c \in EndianConfigs, be \in BOOLEAN : Boot(FreshWorld(c, be))
    /\ wt = NoWait

\* the application calls display_clear_gram
ClearSync(d) ==
    /\ CanCall
    /\ \E color \in Colors :
         \E f \in FaultPoints(
                  st7789_display_clear_gram(World(0), d, color).ncalls) :
           \E w \in {st7789_display_clear_gram(World(f), d, color)} :
             /\ Store(w, "clear_gram", d, [NoArg EXCEPT !.pixels = <<color>>])
             /\ app' = [app EXCEPT !.calls = @ + 1,
                                   !.faults = @ + Faulted(f)]
    /\ clr' = [clr EXCEPT !.on = FALSE]

NextEndian ==
    \E d \in Devs :
        \/ ClearSync(d)
        \/ ClearAsync(d)
        \/ Notify(d)

SpecEndian == InitEndian /\ [][NextEndian]_vars

(***************************************************************************)
(* Properties of the pixel stream of the two clears.                       *)
(***************************************************************************)
IsPixelWrite(e) == e.p = "spi.write" /\ e.a[2] = "px"

\* the pixel writes display_clear_gram makes on device d for the colour of
\* the last clear_async
SyncClearWrites(d) ==
    SelectSeq(st7789_display_clear_gram(World(0), d,
                                        clear_config.clear_color).log,
              IsPixelWrite)

\* the two bytes of a pixel of the buffer clear_async has filled, as the
\* bus reads them from memory
AsyncPixelBytes(d) ==
    Bytes16(Now(d).host_is_big_endian, heap[clr.pbuf].data.fill)

\* a clear_async of the idle device d has run to its end with no
\* allocation or primitive failing
AsyncClearCompleted(d) ==
    /\ clr.on /\ clr.d = d /\ app.faults = 0
    /\ hal.inflight[d] = 0
    /\ ClearDone(d)

\* C34: on the serial bus a completed display_clear_gram_async has put the
\* pixel stream on the bus that display_clear_gram puts there for the same
\* device, colour and host_is_big_endian: as many pixels, and for every
\* pixel the same two bytes.
C34_SameClearStream ==
    \A d \in Devs :
        (AsyncClearCompleted(d)
         /\ Now(d).bus_mode = ST7789_BUS_MODE_SPI) =>
            /\ Len(SyncClearWrites(d)) = SumSeq(hal.disp[d])
            /\ \A i \in 1..Len(SyncClearWrites(d)) :
                   SyncClearWrites(d)[i].a[3] = AsyncPixelBytes(d)


(***************************************************************************)
(* wait_async_complete with the busy loop running on and the SysTick       *)
(* interrupt arriving: the loop's two steps and the interrupt are taken    *)
(* whenever they stay possible.                                            *)
(***************************************************************************)
SpecWaitFair ==
    /\ SpecWait
    /\ WF_vars(\E d \in Devs : WaitTest(d))
    /\ WF_vars(\E d \in Devs : WaitRead(d))
    /\ WF_vars(TickISR)

(***************************************************************************)
(* Properties of the termination of wait_async_complete.                   *)
(***************************************************************************)
\* wait_async_complete is in its loop
InWaitLoop == wt.pc \in {"test", "read"}

\* wait_async_complete has returned
WaitReturned == wt.pc = "done"

\* the tick counter keeps advancing: more ticks are still to come than the
\* largest timeout of WaitTimeouts below 0xFFFFFFFF, which is 2, counts
TicksToCome == MaxTicks - wt.ticks > 2

\* C35: with the tick counter advancing, wait_async_complete returns for
\* every timeout, 0 and 0xFFFFFFFF included: with ALL_OK when the state
\* becomes Idle, else with E_HARDWARE_TIMEOUT.
C35_WaitTerminates == (InWaitLoop /\ TicksToCome) ~> WaitReturned


(***************************************************************************)
(* timer.c: sys_delay_ms against the SysTick interrupt.  The 64-bit tick   *)
(* counter system_clk is two volatile 32-bit words the function reads one  *)
(* at a time; the interrupt runs between any two reads.  One action per    *)
(* read.                                                                   *)
(***************************************************************************)
\* ticks of the SysTick interrupt in one behaviour
MaxDelayTicks == 5

\* the variables of the LCD drivers, which the other peripherals leave
\* alone
lcdvars ==
    <<dev, clear_config, heap, line, hal, sess, reg, app, last, clr, wt>>

\* no LCD is in use
LcdOff ==
    /\ BootDriver(FreshWorld(CHOOSE c \in Configs : c.lock, FALSE), 0)
    /\ wt = NoWait

InitDelay ==
    /\ LcdOff
    \* system_clk.cnt at the start: zero, and two and one ticks before the
    \* low word wraps
    /\ \E t \in {Nat32(0), [hi |-> 65535, lo |-> 65534], UINT32_MAX} :
         tmr = NoDelayAt(t)
    /\ adc = AdcIdleAt(Nat32(0))
    /\ oled = OledAfterInit(FALSE)

\* the call: volatile uint32_t tick_cnt_old = system_clk.cnt;
DelayCall ==
    /\ tmr.pc = "none"
    /\ \E ms \in {0, 1, 2} :
         tmr' = [tmr EXCEPT !.pc = "read_hi", !.ms = ms,
                            !.tick_cnt_old = tmr.cnt, !.elapsed = 0]
    /\ UNCHANGED <<lcdvars, adc, oled>>

\* volatile uint32_t tick_cnt_hi_old = system_clk.cnt_hi; and the target:
\* target_tick_cnt = tick_cnt_old + ms, with the carry into the high word
DelayReadHi ==
    /\ tmr.pc = "read_hi"
    /\ tmr' = [tmr EXCEPT
                 !.pc = "test_hi",
                 !.tick_cnt_hi_old = tmr.cnt_hi,
                 !.target_tick_cnt = Add32(tmr.tick_cnt_old, Nat32(tmr.ms)),
                 !.target_tick_cnt_hi =
                     IF Gt32(tmr.tick_cnt_old,
                             Add32(tmr.tick_cnt_old, Nat32(tmr.ms)))
                     THEN Inc32(tmr.cnt_hi) ELSE tmr.cnt_hi]
    /\ UNCHANGED <<lcdvars, adc, oled>>

\* if (system_clk.cnt_hi > target_tick_cnt_hi) break;
DelayTestHi ==
    /\ tmr.pc = "test_hi"
    /\ tmr' = [tmr EXCEPT !.pc = IF Gt32(tmr.cnt_hi, tmr.target_tick_cnt_hi)
                                 THEN "done" ELSE "test_eq"]
    /\ UNCHANGED <<lcdvars, adc, oled>>

\* else if (system_clk.cnt_hi == target_tick_cnt_hi)
DelayTestEq ==
    /\ tmr.pc = "test_eq"
    /\ tmr' = [tmr EXCEPT !.pc = IF tmr.cnt_hi = tmr.target_tick_cnt_hi
                                 THEN "test_lo" ELSE "test_hi"]
    /\ UNCHANGED <<lcdvars, adc, oled>>

\* if (system_clk.cnt > target_tick_cnt) break;
DelayTestLo ==
    /\ tmr.pc = "test_lo"
    /\ tmr' = [tmr EXCEPT !.pc = IF Gt32(tmr.cnt, tmr.target_tick_cnt)
                                 THEN "done" ELSE "test_hi"]
    /\ UNCHANGED <<lcdvars, adc, oled>>

\* systick_timer_isr: if (++system_clk.cnt == 0) system_clk.cnt_hi++;
\* (elapsed counts the ticks since the entry of sys_delay_ms)
systick_timer_isr ==
    /\ tmr.ticks < MaxDelayTicks
    /\ tmr' = [tmr EXCEPT
                 !.cnt = Inc32(@),
                 !.cnt_hi = IF Inc32(tmr.cnt) = Nat32(0) THEN Inc32(@) ELSE @,
                 !.ticks = @ + 1,
                 !.elapsed = IF tmr.pc \notin {"none", "done"}
                             THEN @ + 1 ELSE @]
    /\ UNCHANGED <<lcdvars, adc, oled>>

NextDelay ==
    \/ DelayCall
    \/ DelayReadHi
    \/ DelayTestHi
    \/ DelayTestEq
    \/ DelayTestLo
    \/ systick_timer_isr

SpecDelay == InitDelay /\ [][NextDelay]_vars

\* the function runs on: each of its steps is taken when it stays possible
SpecDelayFair ==
    /\ SpecDelay
    /\ WF_vars(DelayReadHi)
    /\ WF_vars(DelayTestHi)
    /\ WF_vars(DelayTestEq)
    /\ WF_vars(DelayTestLo)

(***************************************************************************)
(* Properties of sys_delay_ms.                                             *)
(***************************************************************************)
InDelay == tmr.pc \in {"read_hi", "test_hi", "test_eq", "test_lo"}

DelayReturned == tmr.pc = "done"

\* C36: sys_delay_ms(ms) returns only after the tick counter has advanced
\* by at least ms since the call, and once the counter has advanced by
\* ms + 1 it returns, wherever the SysTick interrupt falls between the
\* function's reads of the low and the high counter word, the low word
\* wrapping during the call included.
C36_DelayBounds ==
    /\ [](DelayReturned => tmr.elapsed >= tmr.ms)
    /\ (InDelay /\ tmr.elapsed >= tmr.ms + 1) ~> DelayReturned


(***************************************************************************)
(* cs123x.c: cs123x_wait_data_ready polls the data line and asks           *)
(* is_timeout with the time base of the HAL, a 32-bit millisecond counter  *)
(* that advances between the polls.                                        *)
(***************************************************************************)
\* advances of the time base in one behaviour
MaxAdcTicks == 5

is_timeout(start, now, timeout_ms) ==
    IF Ge32(now, start)
    THEN Ge32(Sub32(now, start), timeout_ms)
    \* overflow happen
    ELSE Ge32(Add32(Sub32(UINT32_MAX, start), now), timeout_ms)

InitAdc ==
    /\ LcdOff
    /\ tmr = NoDelayAt(Nat32(0))
    \* get_time_ms() at the start: zero, and three and one milliseconds
    \* before the counter wraps
    /\ \E t \in {Nat32(0), [hi |-> 65535, lo |-> 65533], UINT32_MAX} :
         adc = AdcIdleAt(t)
    /\ oled = OledAfterInit(FALSE)

\* the call: uint32_t now, start = dev->hal.get_time_ms();
AdcWaitCall ==
    /\ adc.pc = "none"
    /\ \E timeout_ms \in {Nat32(0), Nat32(1), Nat32(3), UINT32_MAX} :
         adc' = [adc EXCEPT !.pc = "poll", !.start = adc.time,
                            !.timeout_ms = timeout_ms]
    /\ UNCHANGED <<lcdvars, tmr, oled>>

\* CALL_WITH_ERROR_RETURN(cs123x_is_data_ready, dev, &ready);
\* if (ready) return ALL_OK;  (ok: the GPIO calls of is_data_ready succeed)
AdcPoll ==
    /\ adc.pc = "poll"
    /\ \E ok \in BOOLEAN :
         adc' = IF ~ok
                THEN [adc EXCEPT !.pc = "done", !.ret = E_HARDWARE_ERROR]
                ELSE IF adc.ready
                THEN [adc EXCEPT !.pc = "done", !.ret = ALL_OK]
                ELSE [adc EXCEPT !.pc = "sample"]
    /\ UNCHANGED <<lcdvars, tmr, oled>>

\* delay(10); now = get_time_ms(); } while (!is_timeout(start, now,
\* timeout_ms)); return E_HARDWARE_TIMEOUT;
AdcSample ==
    /\ adc.pc = "sample"
    /\ adc' = IF is_timeout(adc.start, adc.time, adc.timeout_ms)
              THEN [adc EXCEPT !.pc = "done", !.ret = E_HARDWARE_TIMEOUT,
                               !.now = adc.time, !.checked = TRUE,
                               !.expired = TRUE]
              ELSE [adc EXCEPT !.pc = "poll",
                               !.now = adc.time, !.checked = TRUE,
                               !.expired = FALSE]
    /\ UNCHANGED <<lcdvars, tmr, oled>>

\* the time base advances by one millisecond
AdcTick ==
    /\ adc.ticks < MaxAdcTicks
    /\ adc' = [adc EXCEPT !.time = Inc32(@), !.ticks = @ + 1]
    /\ UNCHANGED <<lcdvars, tmr, oled>>

\* the converter pulls the data line low: a sample is ready
AdcDataReady ==
    /\ ~adc.ready
    /\ adc' = [adc EXCEPT !.ready = TRUE]
    /\ UNCHANGED <<lcdvars, tmr, oled>>

NextAdc ==
    \/ AdcWaitCall
    \/ AdcPoll
    \/ AdcSample
    \/ AdcTick
    \/ AdcDataReady

SpecAdc == InitAdc /\ [][NextAdc]_vars

(***************************************************************************)
(* Properties of is_timeout.                                               *)
(***************************************************************************)
\* the time elapsed between the two readings, modulo 2^32
AdcElapsed == Sub32(adc.now, adc.start)

\* C37: is_timeout(start, now, timeout_ms), as cs123x_wait_data_ready
\* calls it, is true exactly when (now - start) modulo 2^32 is at least
\* timeout_ms, the time base having wrapped (now < start) or not.
C37_TimeoutExact ==
    adc.checked => (adc.expired <=> Ge32(AdcElapsed, adc.timeout_ms))


(***************************************************************************)
(* ssd1306.c: the write offset of the OLED driver.  As for the LCD, every  *)
(* C function is an operator on a world: the device struct, the levels of  *)
(* the lines, the address the panel was last sent, the data bytes written, *)
(* the primitive calls counted; the failAt-th primitive call fails.        *)
(***************************************************************************)
SSD1306_GRAM_SIZE == 1024
SSD1306_GRAM_LINE_WIDTH == 128
SSD1306_GRAM_LINE_COUNT == 8

\* API calls of one behaviour of the OLED model, and how many of them
\* have a primitive failing
MaxOledCalls == 3
MaxOledFaults == 1
\* the primitive call that fails is among the first MaxOledFaultAt of its
\* API call
MaxOledFaultAt == 30

OledWorld(f) ==
    [write_offset |-> oled.write_offset, has_lock |-> oled.has_lock,
     sent |-> oled.sent, cs |-> 1, dc |-> 1, bytes |-> 0, rows |-> 0,
     ncalls |-> 0, failAt |-> f, ret |-> ALL_OK]

\* the panel takes the three bytes of a set-offset command: page address
\* (0xB0..0xB7), higher and lower nibble of the column address
PanelAddress(cmd_seq) ==
    [row |-> cmd_seq[1] - 176,
     col |-> (cmd_seq[2] - 16) * 16 + cmd_seq[3]]

\* what a primitive of ssd1306_device_op_t does when it succeeds: bytes
\* written with data/command low are a command, else display data
OledEffect(o, p, a) ==
    IF p = "gpio_cs_set" THEN [o EXCEPT !.cs = a]
    ELSE IF p = "gpio_dc_set" THEN [o EXCEPT !.dc = a]
    ELSE IF p = "spi_write"
    THEN IF o.dc = 0
         THEN [o EXCEPT !.sent = PanelAddress(a.data), !.rows = @ + 1]
         ELSE [o EXCEPT !.bytes = @ + a.size]
    ELSE o

OledPrim(o, p, a) ==
    Let([o EXCEPT !.ncalls = @ + 1,
                  !.ret = IF o.ncalls + 1 # o.failAt THEN ALL_OK
                          ELSE E_HARDWARE_ERROR],
        LAMBDA o1 : IF FAILED(o1.ret) THEN o1 ELSE OledEffect(o1, p, a))

\* a run of CALL_WITH_ERROR_RETURN(...): the calls in order up to the
\* first that fails
RECURSIVE OledPrims(_, _)
OledPrims(o, steps) ==
    IF steps = <<>> THEN o
    ELSE OnOk(OledPrim(o, Head(steps)[1], Head(steps)[2]),
              LAMBDA o1 : OledPrims(o1, Tail(steps)))

\* CALL_NULLABLE_WITH_ERROR(device->device_op.spi_aquire / spi_release)
OledLock(o, p) == IF o.has_lock THEN OledPrim(o, p, <<>>) ELSE o

\* write_command_sequence (dc = 0) and write_data (dc = 1)
OledWrite(o, dc, data, size) ==
    OnOk(OledLock(o, "spi_aquire"), LAMBDA o0 :
      OnOk(OledPrims(o0,
             << <<"gpio_cs_set", 1>>, <<"gpio_dc_set", dc>>,
                <<"gpio_cs_set", 0>>,
                <<"spi_write", [data |-> data, size |-> size]>>,
                <<"gpio_cs_set", 1>>,
                <<"gpio_cs_set", 1>>, <<"gpio_dc_set", 1>> >>),
           LAMBDA o1 :
             OnOk(OledLock(o1, "spi_release"), LAMBDA o2 :
               Return(o2, ALL_OK))))

write_command_sequence(o, cmd_seq) == OledWrite(o, 0, cmd_seq, Len(cmd_seq))

write_data(o, size) == OledWrite(o, 1, <<>>, size)

\* cmd_seq = { 0xB0 | row_off, 0x10 | ((col_off & 0xF0) >> 4),
\*             0x00 | (col_off & 0x0F) } for row_off < 8, col_off < 128
ssd1306_set_offset(o, col_off, row_off) ==
    IF ~(col_off < 128) THEN Return(o, E_MEMORY_OUT_OF_BOUND)
    ELSE IF ~(row_off < 8) THEN Return(o, E_MEMORY_OUT_OF_BOUND)
    ELSE OnOk(write_command_sequence(o,
                <<176 + row_off, 16 + (col_off \div 16), col_off % 16>>),
              LAMBDA o1 :
                Return([o1 EXCEPT !.write_offset =
                            col_off + row_off * SSD1306_GRAM_LINE_WIDTH],
                       ALL_OK))

ssd1306_set_offset_by_addr(o, off) ==
    IF ~(off < SSD1306_GRAM_SIZE) THEN Return(o, E_MEMORY_OUT_OF_BOUND)
    ELSE ssd1306_set_offset(o, off % SSD1306_GRAM_LINE_WIDTH,
                            off \div SSD1306_GRAM_LINE_WIDTH)

\* do { write_size = data_left > col_left ? col_left : data_left;
\*      write_data; data_left -= write_size;
\*      if (data_left > 0) { row_pos++; set_offset(0, row_pos); }
\* } while (data_left > 0);          (col_left is not assigned in the loop)
RECURSIVE append_gram_loop(_, _, _, _)
append_gram_loop(o, data_left, col_left, row_pos) ==
    OnOk(write_data(o, Min(data_left, col_left)), LAMBDA o1 :
      IF data_left - Min(data_left, col_left) > 0
      THEN OnOk(ssd1306_set_offset(o1, 0, row_pos + 1), LAMBDA o2 :
             append_gram_loop(o2, data_left - Min(data_left, col_left),
                              col_left, row_pos + 1))
      ELSE o1)

\* append_gram from "uint32_t col_left = ..." on
append_gram_body(o, w_size, row_pos, col_pos) ==
    OnOk(IF SSD1306_GRAM_LINE_WIDTH - col_pos = 0
         THEN OnOk(ssd1306_set_offset(o, 0, row_pos + 1), LAMBDA o0 :
                append_gram_loop(o0, w_size, SSD1306_GRAM_LINE_WIDTH,
                                 row_pos + 1))
         ELSE append_gram_loop(o, w_size, SSD1306_GRAM_LINE_WIDTH - col_pos,
                               row_pos),
         LAMBDA o1 :
           \* device->write_offset += w_size;
           Return([o1 EXCEPT !.write_offset = @ + w_size], ALL_OK))

ssd1306_append_gram(o, w_data, w_size) ==
    IF w_data = NULL THEN Return(o, E_INVALID_ARGUMENT)
    ELSE IF o.write_offset + w_size > SSD1306_GRAM_SIZE
    THEN Return(o, E_MEMORY_OUT_OF_BOUND)
    ELSE append_gram_body(o, w_size,
                          o.write_offset \div SSD1306_GRAM_LINE_WIDTH,
                          o.write_offset % SSD1306_GRAM_LINE_WIDTH)

\* for (j < fill_count) write_data(device, dummy_data, sizeof(dummy_data));
RECURSIVE clear_gram_fill(_, _)
clear_gram_fill(o, j) ==
    IF j = 0 THEN o
    ELSE OnOk(write_data(o, 16), LAMBDA o1 : clear_gram_fill(o1, j - 1))

\* for (i < SSD1306_GRAM_LINE_COUNT) { set_offset(0, i); fill the row }
RECURSIVE clear_gram_rows(_, _)
clear_gram_rows(o, i) ==
    IF i = SSD1306_GRAM_LINE_COUNT THEN o
    ELSE OnOk(ssd1306_set_offset(o, 0, i), LAMBDA o1 :
           OnOk(clear_gram_fill(o1, SSD1306_GRAM_LINE_WIDTH \div 16),
                LAMBDA o2 : clear_gram_rows(o2, i + 1)))

ssd1306_clear_gram(o) ==
    OnOk(ssd1306_set_offset_by_addr(o, 0), LAMBDA o0 :
      OnOk(clear_gram_rows(o0, 0), LAMBDA o1 :
        \* restore the offset
        OnOk(ssd1306_set_offset_by_addr(o1, o1.write_offset), LAMBDA o2 :
          Return(o2, ALL_OK))))

InitOled ==
    /\ LcdOff
    /\ tmr = NoDelayAt(Nat32(0))
    /\ adc = AdcIdleAt(Nat32(0))
    /\ \E lock \in BOOLEAN : oled = OledAfterInit(lock)

OledFaultPoints(n) ==
    IF oled.faults < MaxOledFaults THEN 0..Min(n, MaxOledFaultAt) ELSE {0}

\* the world after an API call becomes the state
OledStore(o, op, w_size) ==
    /\ oled' = [write_offset |-> o.write_offset, has_lock |-> o.has_lock,
                sent |-> o.sent, op |-> op, pre |-> oled.write_offset,
                w_size |-> w_size, ret |-> o.ret, calls |-> oled.calls + 1,
                faults |-> oled.faults + Faulted(o.failAt),
                rows |-> o.rows, bytes |-> o.bytes]
    /\ UNCHANGED <<lcdvars, tmr, adc>>

\* the application calls ssd1306_set_offset_by_addr
OledSetOffsetByAddr ==
    /\ oled.calls < MaxOledCalls
    /\ \E off \in {0, 100, 896, 1000, 1023, 1024} :
         \E f \in OledFaultPoints(
                  ssd1306_set_offset_by_addr(OledWorld(0), off).ncalls) :
           OledStore(ssd1306_set_offset_by_addr(OledWorld(f), off),
                     "set_offset_by_addr", 0)

\* the application calls ssd1306_set_offset
OledSetOffset ==
    /\ oled.calls < MaxOledCalls
    /\ \E col_off \in {0, 100, 128}, row_off \in {0, 7, 8} :
         \E f \in OledFaultPoints(
                  ssd1306_set_offset(OledWorld(0), col_off, row_off).ncalls) :
           OledStore(ssd1306_set_offset(OledWorld(f), col_off, row_off),
                     "set_offset", 0)

\* the application calls ssd1306_append_gram
OledAppend ==
    /\ oled.calls < MaxOledCalls
    \* w_data: NULL or the address of a buffer of the application
    /\ \E w_size \in {0, 28, 50, 128, 1024}, w_data \in {NULL, 301} :
         \E f \in OledFaultPoints(
                  ssd1306_append_gram(OledWorld(0), w_data, w_size).ncalls) :
           OledStore(ssd1306_append_gram(OledWorld(f), w_data, w_size),
                     "append_gram", w_size)

\* the application calls ssd1306_clear_gram
OledClear ==
    /\ oled.calls < MaxOledCalls
    /\ \E f \in OledFaultPoints(ssd1306_clear_gram(OledWorld(0)).ncalls) :
         OledStore(ssd1306_clear_gram(OledWorld(f)), "clear_gram", 0)

NextOled ==
    \/ OledSetOffsetByAddr
    \/ OledSetOffset
    \/ OledAppend
    \/ OledClear

SpecOled == InitOled /\ [][NextOled]_vars

(***************************************************************************)
(* Properties of the write offset of the SSD1306.                          *)
(***************************************************************************)
OledCalled(op) == oled.op = op /\ oled.ret = ALL_OK

\* C38: a successful ssd1306_append_gram of w_size bytes at write offset o
\* with o + w_size <= 1024 leaves write_offset = o + w_size, the write
\* crossing 128-byte row boundaries or not; and write_offset never
\* exceeds 1024.
C38_AppendAdvancesOffset ==
    /\ (OledCalled("append_gram")
        /\ oled.pre + oled.w_size <= SSD1306_GRAM_SIZE) =>
           oled.write_offset = oled.pre + oled.w_size
    /\ oled.write_offset <= SSD1306_GRAM_SIZE

\* C39: after a successful ssd1306_clear_gram the write offset of the
\* device, and the row and column address last sent to the panel, are
\* those of the write offset before the call.
C39_ClearRestoresOffset ==
    OledCalled("clear_gram") =>
        /\ oled.write_offset = oled.pre
        /\ oled.sent = [row |-> oled.pre \div SSD1306_GRAM_LINE_WIDTH,
                        col |-> oled.pre % SSD1306_GRAM_LINE_WIDTH]

=============================================================================
